---- MODULE Spec2Model ----
(***************************************************************************)
(* Verification model of the tee-time booking automation:                  *)
(*   - slot selection      (bookingService.js, findAndBookBestSlot)        *)
(*   - reservation submit  (bookingService.js, makeReservation)            *)
(*   - manual scheduler    (server.js, cron '* * * * *', trigger endpoint) *)
(*   - weekend automation  (weekendAutomation.js and its drivers)          *)
(*   - catalog fetch       (bookingService.js, getTeeSheet)                *)
(*   - catalog parser      (bookingService.js, parseAvailableSlots)        *)
(*   - booking attempts    (processBooking, trigger endpoint,              *)
(*                          executeWeekendBooking and the portal session)  *)
(* Each component has its own specification (SpecSelect, SpecSubmit,       *)
(* SpecSched, SpecWeekend, SpecFetch, SpecParse, SpecAttempt); the         *)
(* variables of the other components stay at their idle values.            *)
(* SpecSelectText runs the slot selection on time texts that need not      *)
(* parse, SpecStorage the weekend runs over storage reads that may throw.  *)
(***************************************************************************)
EXTENDS Integers, Sequences, FiniteSets, Bags, TLC

VARIABLES
    \* ---- findAndBookBestSlot ----
    slots,          \* teeSheet.slots as the portal lists them (catalog order)
    preferredTime,  \* argument preferredTime (earliest acceptable)
    maxTime,        \* argument maxTime (latest acceptable)
    fastMode,       \* argument fastMode
    fbPc,           \* position inside findAndBookBestSlot
    teeSheet,       \* result of getTeeSheet
    submitted,      \* slots handed to makeReservation, in call order
    fbResult,       \* value returned by findAndBookBestSlot
    \* ---- makeReservation ----
    mrSlot,         \* argument slot (date and time requested)
    mrPc,           \* position inside makeReservation
    attempt,        \* loop counter of makeReservation
    posts,          \* number of form submissions made in this call
    response,       \* last answer of the portal to the form submission
    classified,     \* how the last received response was classified
    mrResult,       \* value returned by makeReservation
    \* ---- manual scheduler ----
    now,            \* wall clock, in TimeUnit steps
    booking,        \* the booking_preferences row
    inflight,       \* booking attempts currently running
    timers,         \* pending setTimeout callbacks
    lastTickAt,     \* instant of the last cron tick
    triggers,       \* number of trigger calls so far
    logs,           \* the booking_logs rows of the request, in insertion order
    \* ---- weekend automation ----
    todayDow,       \* weekday of the current date (getDay())
    rows,           \* the booking_preferences rows (a bag)
    history,        \* the weekend_booking_history entries
    isEnabled,      \* weekend_auto_settings.is_enabled
    isBookingInProgress,  \* WeekendAutomation.isBookingInProgress
    catchUpInProgress,    \* WeekendAutomation.catchUpInProgress
    sweeps,         \* the calls of executeCatchUpBookings
    execs,          \* the calls of executeWeekendBooking, by caller
    creators,       \* the calls of POST /api/bookings
    calls,          \* how often each driver has fired
    skipped,        \* whether a call has returned at its in-progress guard
    rtAttempts,     \* real-time booking attempts so far (calls past the existing-row test)
    rtFirst,        \* what the first real-time firing found
    lastBooked,     \* weekend_auto_settings.last_saturday_booked / last_sunday_booked
    readErrors,     \* storage reads that threw in the current run of each caller
    \* ---- getTeeSheet ----
    tsDate,         \* argument date
    tsPc,           \* position inside getTeeSheet
    tsAttempt,      \* loop counter of getTeeSheet
    sentDate,       \* Date parameter of the last dated request
    tsRequests,     \* requests made in this call, by kind
    payload,        \* body of the last answer to a dated request
    tsError,        \* the error last caught by the retry loop
    tsOutcome,      \* what the call returned or threw
    peerAccepts,    \* the date forms the portal understands
    peerDefault,    \* the date the portal shows for a date it does not understand
    \* ---- booking attempts and the portal session ----
    guestList,      \* number of rows SELECT ... FROM guest_list ... LIMIT 3 returns
    service,        \* the GolfBookingService of the server and of the weekend automation
    portalSession,  \* whether the portal holds a session for the cookie jar
    cur,            \* the booking attempt that is running
    prev,           \* how the last attempt on each GolfBookingService ended
    attemptsRun,    \* number of attempts started
    handshakes,     \* calls of authenticate made by attempts, per GolfBookingService
    submissions,    \* calls of makeReservation
    \* ---- parseAvailableSlots ----
    html,           \* argument html, as the parser reads it
    parsed,         \* the list the first call returned
    reparsed,       \* the list the second call returned
    psPc            \* how often the page has been parsed

selVars   == <<slots, preferredTime, maxTime, fastMode, fbPc, teeSheet, submitted, fbResult>>
subVars   == <<mrSlot, mrPc, attempt, posts, response, classified, mrResult>>
schedVars == <<now, booking, inflight, timers, lastTickAt, triggers, logs>>
wkVars    == <<todayDow, rows, history, isEnabled, isBookingInProgress, catchUpInProgress,
               sweeps, execs, creators, calls, skipped, rtAttempts, rtFirst,
               lastBooked, readErrors>>
tsVars    == <<tsDate, tsPc, tsAttempt, sentDate, tsRequests, payload, tsError, tsOutcome,
               peerAccepts, peerDefault>>
atVars    == <<guestList, service, portalSession, cur, prev, attemptsRun, handshakes,
               submissions>>
psVars    == <<html, parsed, reparsed, psPc>>
vars      == <<selVars, subVars, schedVars, wkVars, tsVars, atVars, psVars>>

(***************************************************************************)
(* Time-of-day strings.  A string is described by what the regular         *)
(* expressions of timeToMinutes see in it: the format that matches and the *)
(* captured digit groups.                                                  *)
(***************************************************************************)
TimeLex ==
    ("7:30 AM"  :> [fmt |-> "ampm", h |-> 7,  m |-> 30, period |-> "AM"]) @@
    ("7:50 AM"  :> [fmt |-> "ampm", h |-> 7,  m |-> 50, period |-> "AM"]) @@
    ("8:10 AM"  :> [fmt |-> "ampm", h |-> 8,  m |-> 10, period |-> "AM"]) @@
    ("12:10 PM" :> [fmt |-> "ampm", h |-> 12, m |-> 10, period |-> "PM"]) @@
    ("1:00 PM"  :> [fmt |-> "ampm", h |-> 1,  m |-> 0,  period |-> "PM"]) @@
    ("07:50:00" :> [fmt |-> "hms",  h |-> 7,  m |-> 50, period |-> ""]) @@
    ("09:00:00" :> [fmt |-> "hms",  h |-> 9,  m |-> 0,  period |-> ""]) @@
    ("13:00"    :> [fmt |-> "hm",   h |-> 13, m |-> 0,  period |-> ""]) @@
    ("00:00:00" :> [fmt |-> "hms",  h |-> 0,  m |-> 0,  period |-> ""]) @@
    ("100:00:00" :> [fmt |-> "none", h |-> 0, m |-> 0,  period |-> ""]) @@
    ("TBD"      :> [fmt |-> "none", h |-> 0,  m |-> 0,  period |-> ""])

\* Times of day the portal lists (12-hour form).
SlotTimes == {"7:30 AM", "7:50 AM", "8:10 AM", "12:10 PM", "1:00 PM"}

\* Window bounds as stored in booking_preferences (TIME columns, or HH:MM).
WindowTimes == {"07:50:00", "09:00:00", "13:00"}

\* The third argument of a LaunchReserver call is any quoted text
\* (params[2].replace(/['"]/g, '')): times of day and a text without one.
SlotTexts == {"7:50 AM", "8:10 AM", "TBD"}

\* Values a TIME column holds and the driver returns as text: midnight, times
\* of day, and a value of three hour digits, which none of the three
\* expressions of timeToMinutes matches.
WindowTexts == {"00:00:00", "07:50:00", "09:00:00", "100:00:00"}

timeToMinutes(timeStr) ==
    LET lx == TimeLex[timeStr] IN
    CASE lx.fmt = "hms"  -> lx.h * 60 + lx.m
      [] lx.fmt = "hm"   -> lx.h * 60 + lx.m
      [] lx.fmt = "ampm" ->
            LET hours == IF lx.period = "PM" /\ lx.h # 12 THEN lx.h + 12
                         ELSE IF lx.period = "AM" /\ lx.h = 12 THEN 0
                         ELSE lx.h
            IN  hours * 60 + lx.m
      [] OTHER -> 0

(***************************************************************************)
(* Catalog parser (parseTeeSheet, parseAvailableSlots)                     *)
(*                                                                         *)
(* Of a page the parser reads the text of its .ncDateNotOpen element, the  *)
(* text of #cdownBox and the LaunchReserver(courseId, date, time, tee,     *)
(* currentPlayers, availableSpots) calls, kept in page order.  The portal  *)
(* renders every tee time of a page from one template, so the calls of a   *)
(* page share one layout; the layout decides which scan reads them.        *)
(***************************************************************************)
\* the number a digit string denotes, as parseInt and the Date constructor
\* read it
RECURSIVE ParseDigits(_)
ParseDigits(s) ==
    IF s = <<>> THEN 0 ELSE 10 * ParseDigits(SubSeq(s, 1, Len(s) - 1)) + s[Len(s)]

Layouts == {"inline handlers",                   \* onclick="LaunchReserver('95', ...)"
            "inline handlers, double quotes",    \* onclick='LaunchReserver("95", ...)'
            "script text",                       \* the calls stand outside onclick attributes
            "inline handlers, encoded quotes"}   \* onclick="LaunchReserver(&#x27;95&#x27;, ...)"

\* parseInt of a string of digits
parseInt(str) == ParseDigits(str)

\* const patterns = [ ..., ... ]: the calls patterns[i] matches in decodedHtml.
\* The first pattern takes either quote, the second single quotes only; the
\* decoding before them replaces &quot; and &#39; only.
PatternMatches(page, i) ==
    IF \/ page.layout \in {"inline handlers", "script text"}
       \/ page.layout = "inline handlers, double quotes" /\ i = 1
    THEN page.calls
    ELSE <<>>

\* $('[onclick]').each(...): the calls the attribute scan reads
OnclickMatches(page) ==
    IF page.layout = "script text" THEN <<>> ELSE page.calls

\* the record pushed for a call
SlotRecord(call) ==
    [time |-> call.time,
     tee |-> IF call.tee = "1" THEN "1st TEE" ELSE "10th TEE",
     availableSpots |-> parseInt(call.availableSpots),
     currentPlayers |-> parseInt(call.currentPlayers),
     courseId |-> call.courseId,
     date |-> call.date,
     canReserve |-> TRUE]

\* an alternative to HasSpots that keeps every call
HasSpotsAlways(call) == TRUE
\* parseInt(availableSpots) > 0
HasSpots(call) == parseInt(call.availableSpots) > 0

\* an alternative to exists that finds no record
existsNever(sl, call) == FALSE
\* slots.some(s => s.time === time && s.date === date)
exists(sl, call) ==
    \E k \in 1..Len(sl) : sl[k].time = call.time /\ sl[k].date = call.date

\* the body of either loop for one match
PushMatch(sl, call) ==
    IF HasSpots(call)
    THEN IF exists(sl, call) THEN sl ELSE Append(sl, SlotRecord(call))
    ELSE sl

\* while ((match = pattern.exec(decodedHtml)) !== null) { ... }
RECURSIVE ScanMatches(_, _, _)
ScanMatches(sl, matches, i) ==
    IF i > Len(matches) THEN sl
    ELSE ScanMatches(PushMatch(sl, matches[i]), matches, i + 1)

parseAvailableSlots(page) ==
    LET first  == ScanMatches(<<>>, PatternMatches(page, 1), 1)
        second == ScanMatches(first, PatternMatches(page, 2), 1)
    IN  IF Len(second) = 0
        THEN ScanMatches(second, OnclickMatches(page), 1)
        ELSE second

\* A page is kept as the long dates its text contains, whether it contains
\* 'txtUsername' or 'Login', the text of its .ncDateNotOpen element ("" if it
\* has none), the text of #cdownBox, its LaunchReserver calls with their
\* layout, and the date whose tee times it lists.  A long date starts with a capitalised day
\* name and ends with a four-digit year, so one long date is a substring of
\* another only if they are equal: includes() is membership.
NoDate == [y |-> 0, m |-> 0, d |-> 0]

NoPayload == [dates |-> {}, login |-> FALSE, notOpenText |-> "", countdown |-> "",
              layout |-> "inline handlers", calls |-> <<>>, sheet |-> NoDate]

\* what the portal shows on the page of a date that is not open yet
NotOpenText == "Tee times for this date are not yet open"
CountdownText == "00:29:30"

\* an alternative to parseTeeSheet that does not look for the marker
parseTeeSheetOpen(page) ==
    [available |-> TRUE, message |-> "undefined", countdown |-> "undefined",
     slots |-> parseAvailableSlots(page), sheet |-> page.sheet]
\* parseTeeSheet: the closed catalog, or the slots the page lists; sheet is
\* the date the page was rendered for
parseTeeSheet(page) ==
    IF page.notOpenText # ""
    THEN [available |-> FALSE, message |-> page.notOpenText, countdown |-> page.countdown,
          slots |-> <<>>, sheet |-> page.sheet]
    ELSE [available |-> TRUE, message |-> "undefined", countdown |-> "undefined",
          slots |-> parseAvailableSlots(page), sheet |-> page.sheet]

(***************************************************************************)
(* Slot selection                                                          *)
(***************************************************************************)
FullCapacity == 4

MaxSlots == 3

\* A SlotRecord as parseAvailableSlots builds it (remaining capacity > 0).
SlotOf(t, k) == [time |-> t, availableSpots |-> k, canReserve |-> TRUE]

\* Slot lists of one catalog: parseAvailableSlots keeps one record per
\* (time, date) pair, so the times of a list are pairwise different; the order
\* is the order of the payload.
SlotLists ==
    LET Recs == {SlotOf(t, k) : t \in SlotTimes, k \in 1..FullCapacity}
    IN  UNION {{s \in [1..n -> Recs] :
                   \A i, j \in 1..n : i # j => s[i].time # s[j].time} : n \in 0..MaxSlots}

InRangeNoUpper(slot, preferredTimeMin, maxTimeMin) ==
    timeToMinutes(slot.time) >= preferredTimeMin

InRange(slot, preferredTimeMin, maxTimeMin) ==
    LET slotMin == timeToMinutes(slot.time)
    IN  slotMin >= preferredTimeMin /\ slotMin <= maxTimeMin

\* teeSheet.slots.filter(...) of one priority
TierFilter(sl, priority, preferredTimeMin, maxTimeMin) ==
    SelectSeq(sl, LAMBDA slot : slot.canReserve /\ slot.availableSpots = priority
                                /\ InRange(slot, preferredTimeMin, maxTimeMin))

NormalSelectLowTierFirst(sl, pref, max) ==
    LET pMin == timeToMinutes(pref)
        mMin == timeToMinutes(max)
        F(k) == TierFilter(sl, k, pMin, mMin)
        availableSlots == IF Len(F(1)) > 0 THEN F(1)
                          ELSE IF Len(F(2)) > 0 THEN F(2)
                          ELSE IF Len(F(3)) > 0 THEN F(3)
                          ELSE F(4)
    IN  IF Len(availableSlots) = 0 THEN <<>> ELSE <<availableSlots[1]>>

NormalSelectLastOfTier(sl, pref, max) ==
    LET pMin == timeToMinutes(pref)
        mMin == timeToMinutes(max)
        F(k) == TierFilter(sl, k, pMin, mMin)
        availableSlots == IF Len(F(4)) > 0 THEN F(4)
                          ELSE IF Len(F(3)) > 0 THEN F(3)
                          ELSE IF Len(F(2)) > 0 THEN F(2)
                          ELSE F(1)
    IN  IF Len(availableSlots) = 0 THEN <<>>
        ELSE <<availableSlots[Len(availableSlots)]>>

\* Normal mode: the nested filters of priorities 4, 3, 2, 1 and
\* targetSlot = availableSlots[0].  <<>> stands for "no slot".
NormalSelect(sl, pref, max) ==
    LET pMin == timeToMinutes(pref)
        mMin == timeToMinutes(max)
        F(k) == TierFilter(sl, k, pMin, mMin)
        availableSlots == IF Len(F(4)) > 0 THEN F(4)
                          ELSE IF Len(F(3)) > 0 THEN F(3)
                          ELSE IF Len(F(2)) > 0 THEN F(2)
                          ELSE F(1)
    IN  IF Len(availableSlots) = 0 THEN <<>> ELSE <<availableSlots[1]>>

\* Fast mode: for (priority = 4; priority >= 1; priority--) for (slot of slots)
RECURSIVE FastScan(_, _, _, _, _)
FastScan(sl, priority, i, pMin, mMin) ==
    IF priority < 1 THEN <<>>
    ELSE IF i > Len(sl) THEN FastScan(sl, priority - 1, 1, pMin, mMin)
    ELSE IF ~sl[i].canReserve \/ sl[i].availableSpots # priority
         THEN FastScan(sl, priority, i + 1, pMin, mMin)
    ELSE IF InRange(sl[i], pMin, mMin) THEN <<sl[i]>>
    ELSE FastScan(sl, priority, i + 1, pMin, mMin)

FastSelectAnyTier(sl, pref, max) ==
    LET pMin == timeToMinutes(pref)
        mMin == timeToMinutes(max)
        hits == SelectSeq(sl, LAMBDA slot : slot.canReserve
                                            /\ InRange(slot, pMin, mMin))
    IN  IF Len(hits) = 0 THEN <<>> ELSE <<hits[1]>>

FastSelect(sl, pref, max) ==
    FastScan(sl, FullCapacity, 1, timeToMinutes(pref), timeToMinutes(max))

NoSlotsMessage == "No available slots"

NoResult == [success |-> FALSE, message |-> "", kind |-> "none"]

InitSelVars ==
    /\ slots \in SlotLists
    /\ preferredTime \in WindowTimes
    /\ maxTime \in WindowTimes
    /\ fastMode \in BOOLEAN
    /\ fbPc = "start"
    /\ teeSheet = [available |-> FALSE, slots |-> <<>>]
    /\ submitted = <<>>
    /\ fbResult = NoResult

\* Slot lists whose times are the texts of the calls, as the attribute scan
\* of parseAvailableSlots copies them.
TextSlotLists ==
    LET Recs == {SlotOf(t, k) : t \in SlotTexts, k \in 1..FullCapacity}
    IN  UNION {{s \in [1..n -> Recs] :
                   \A i, j \in 1..n : i # j => s[i].time # s[j].time} : n \in 0..MaxSlots}

\* findAndBookBestSlot called with bounds and slot times as they are stored
\* and scraped, parseable or not
InitSelTextVars ==
    /\ slots \in TextSlotLists
    /\ preferredTime \in WindowTexts
    /\ maxTime \in WindowTexts
    /\ fastMode \in BOOLEAN
    /\ fbPc = "start"
    /\ teeSheet = [available |-> FALSE, slots |-> <<>>]
    /\ submitted = <<>>
    /\ fbResult = NoResult

IdleSelVars ==
    /\ slots = <<>>
    /\ preferredTime = "07:50:00"
    /\ maxTime = "13:00"
    /\ fastMode = FALSE
    /\ fbPc = "idle"
    /\ teeSheet = [available |-> FALSE, slots |-> <<>>]
    /\ submitted = <<>>
    /\ fbResult = NoResult

\* await this.getTeeSheet(date): the catalog is open and lists the slots
GetTeeSheetOpen ==
    /\ fbPc = "start"
    /\ teeSheet' = [available |-> TRUE, slots |-> slots]
    /\ fbPc' = "select"
    /\ UNCHANGED <<slots, preferredTime, maxTime, fastMode, submitted, fbResult>>
    /\ UNCHANGED <<subVars, schedVars, wkVars, tsVars, atVars, psVars>>

\* the pages of a date that is not open yet, with and without a countdown
ClosedPages ==
    {[NoPayload EXCEPT !.notOpenText = NotOpenText, !.countdown = cd] :
        cd \in {"", CountdownText}}

\* await this.getTeeSheet(date) returns parseTeeSheet(page), and
\* if (!teeSheet.available) return { success: false, message: teeSheet.message }
TeeSheetParsed(page) ==
    /\ fbPc = "start"
    /\ teeSheet' = parseTeeSheet(page)
    /\ IF ~teeSheet'.available
       THEN /\ fbPc' = "done"
            /\ fbResult' = [success |-> FALSE, message |-> teeSheet'.message,
                            kind |-> "closed"]
       ELSE /\ fbPc' = "select"
            /\ UNCHANGED fbResult
    /\ UNCHANGED <<slots, preferredTime, maxTime, fastMode, submitted>>
    /\ UNCHANGED <<subVars, schedVars, wkVars, tsVars, atVars, psVars>>

\* await this.getTeeSheet(date): the catalog is not open yet
GetTeeSheetClosed == \E page \in ClosedPages : TeeSheetParsed(page)

\* await this.getTeeSheet(date) throws; the catch block returns the error
GetTeeSheetThrows ==
    /\ fbPc = "start"
    /\ fbPc' = "done"
    /\ fbResult' = [success |-> FALSE, message |-> "", kind |-> "error"]
    /\ UNCHANGED <<slots, preferredTime, maxTime, fastMode, teeSheet, submitted>>
    /\ UNCHANGED <<subVars, schedVars, wkVars, tsVars, atVars, psVars>>

\* the scan of the slot list, up to the call of makeReservation
SelectSlot ==
    /\ fbPc = "select"
    /\ LET target == IF fastMode THEN FastSelect(teeSheet.slots, preferredTime, maxTime)
                     ELSE NormalSelect(teeSheet.slots, preferredTime, maxTime)
       IN  IF target = <<>>
           THEN /\ fbPc' = "done"
                /\ fbResult' = [success |-> FALSE, message |-> NoSlotsMessage,
                                kind |-> "no_slots"]
                /\ UNCHANGED submitted
           ELSE /\ fbPc' = "reserve"
                /\ submitted' = submitted \o target
                /\ UNCHANGED fbResult
    /\ UNCHANGED <<slots, preferredTime, maxTime, fastMode, teeSheet>>
    /\ UNCHANGED <<subVars, schedVars, wkVars, tsVars, atVars, psVars>>

\* await this.makeReservation(targetSlot, guests) returns; its result is
\* returned unchanged ("undefined" when makeReservation falls off its loop)
ReservationReturns ==
    /\ fbPc = "reserve"
    /\ \E r \in {[success |-> TRUE,  message |-> "Booking confirmed!", kind |-> "booked"],
                 [success |-> FALSE, message |-> "", kind |-> "rejected"],
                 [success |-> FALSE, message |-> "", kind |-> "undefined"]} :
          fbResult' = r
    /\ fbPc' = "done"
    /\ UNCHANGED <<slots, preferredTime, maxTime, fastMode, teeSheet, submitted>>
    /\ UNCHANGED <<subVars, schedVars, wkVars, tsVars, atVars, psVars>>

(***************************************************************************)
(* Reservation submission (makeReservation)                                *)
(***************************************************************************)
MaxRetries == 10

Jan1Weekday == 3

dayNames == <<"Sunday", "Monday", "Tuesday", "Wednesday", "Thursday", "Friday", "Saturday">>

monthNames == <<"January", "February", "March", "April", "May", "June", "July",
                "August", "September", "October", "November", "December">>

\* Days of 2025 before the first of each month.
DaysBeforeMonth == <<0, 31, 59, 90, 120, 151, 181, 212, 243, 273, 304, 334>>

\* Date.prototype.getDay() for a date of 2025 (0 = Sunday)
getDay(date) == (Jan1Weekday + DaysBeforeMonth[date.m] + date.d - 1) % 7

DateOf(m, d) == [y |-> 2025, m |-> m, d |-> d]

\* The long date form the portal prints: "Saturday, September 6, 2025",
\* kept as its four parts.
LongDate(date) ==
    [day |-> dayNames[getDay(date) + 1], month |-> monthNames[date.m],
     num |-> date.d, year |-> date.y]

Unknown == [day |-> "Unknown", month |-> "", num |-> 0, year |-> 0]

\* `${expectedDayName}, ${expectedMonthName} ${expectedDateNum}`  (no year)
expectedDateString(slot) ==
    [day |-> dayNames[getDay(slot.date) + 1], month |-> monthNames[slot.date.m],
     num |-> slot.date.d]

\* the decimal digits of a are a prefix of the decimal digits of b (1 <= a, b <= 31)
DigitsPrefix(a, b) == a = b \/ (b >= 10 /\ b \div 10 = a)

\* actualDate.includes(expectedDateString)
ActualIncludesExpected(actualDate, expected) ==
    /\ actualDate # Unknown
    /\ actualDate.day = expected.day
    /\ actualDate.month = expected.month
    /\ DigitsPrefix(expected.num, actualDate.num)

\* expectedDateString.includes(actualDate.replace(/,.*$/, ''))
ExpectedIncludesActualHead(actualDate, expected) ==
    actualDate.day = expected.day

dateMatches(actualDate, slot) ==
    \/ ActualIncludesExpected(actualDate, expectedDateString(slot))
    \/ ExpectedIncludesActualHead(actualDate, expectedDateString(slot))

\* actualTime === slot.time
timeMatches(actualTime, slot) == actualTime = slot.time

Markers == {"CONFIRMATION", "SLOT_UNAVAILABLE", "WEEKDAY_RESTRICTION",
            "RULE_CONFLICT", "ERROR"}

ReqDates == {DateOf(9, 6), DateOf(9, 7)}

ConfirmDates == {DateOf(9, 6), DateOf(9, 7), DateOf(9, 13)}

ReqTimes == {"7:50 AM", "8:10 AM"}

\* What the portal can answer to the form submission: any combination of the
\* literal markers; a confirmation block carries a date and a time (or
\* neither pattern matches and the code reads 'Unknown').
Responses ==
    {[markers |-> ms, actualDate |-> Unknown, actualTime |-> "Unknown"] :
        ms \in SUBSET (Markers \ {"CONFIRMATION"})}
    \cup
    {[markers |-> ms \cup {"CONFIRMATION"}, actualDate |-> ad, actualTime |-> at] :
        ms \in SUBSET (Markers \ {"CONFIRMATION"}),
        ad \in {LongDate(d) : d \in ConfirmDates} \cup {Unknown},
        at \in ReqTimes \cup {"Unknown"}}

NoResponse == [markers |-> {}, actualDate |-> Unknown, actualTime |-> "none"]

ClassifyErrorFirst(r, slot) ==
    IF "ERROR" \in r.markers THEN "error"
    ELSE IF "CONFIRMATION" \in r.markers
         THEN IF dateMatches(r.actualDate, slot) /\ timeMatches(r.actualTime, slot)
              THEN "confirmed" ELSE "mismatch"
    ELSE IF "SLOT_UNAVAILABLE" \in r.markers THEN "SLOT_UNAVAILABLE"
    ELSE IF "WEEKDAY_RESTRICTION" \in r.markers THEN "WEEKDAY_RESTRICTION"
    ELSE IF "RULE_CONFLICT" \in r.markers THEN "RULE_CONFLICT"
    ELSE "unclear"

\* the if / else-if chain over responseText
Classify(r, slot) ==
    IF "CONFIRMATION" \in r.markers
    THEN IF dateMatches(r.actualDate, slot) /\ timeMatches(r.actualTime, slot)
         THEN "confirmed" ELSE "mismatch"
    ELSE IF "SLOT_UNAVAILABLE" \in r.markers THEN "SLOT_UNAVAILABLE"
    ELSE IF "WEEKDAY_RESTRICTION" \in r.markers THEN "WEEKDAY_RESTRICTION"
    ELSE IF "RULE_CONFLICT" \in r.markers THEN "RULE_CONFLICT"
    ELSE IF "ERROR" \in r.markers THEN "error"
    ELSE "unclear"

InitSubVars ==
    /\ mrSlot \in {[date |-> d, time |-> t] : d \in ReqDates, t \in ReqTimes}
    /\ mrPc = "form"
    /\ attempt = 1
    /\ posts = 0
    /\ response = NoResponse
    /\ classified = "none"
    /\ mrResult = [success |-> FALSE, kind |-> "none"]

IdleSubVars ==
    /\ mrSlot = [date |-> DateOf(9, 6), time |-> "8:10 AM"]
    /\ mrPc = "idle"
    /\ attempt = 0
    /\ posts = 0
    /\ response = NoResponse
    /\ classified = "none"
    /\ mrResult = [success |-> FALSE, kind |-> "none"]

\* await this.client.get(dialog.aspx) delivers the booking form
GetBookingForm ==
    /\ mrPc = "form"
    /\ mrPc' = "post"
    /\ UNCHANGED <<mrSlot, attempt, posts, response, classified, mrResult>>
    /\ UNCHANGED <<selVars, schedVars, wkVars, tsVars, atVars, psVars>>

\* await this.client.get(dialog.aspx) throws
GetBookingFormThrows ==
    /\ mrPc = "form"
    /\ mrPc' = "catch"
    /\ classified' = "exception"
    /\ UNCHANGED <<mrSlot, attempt, posts, response, mrResult>>
    /\ UNCHANGED <<selVars, schedVars, wkVars, tsVars, atVars, psVars>>

\* await this.client.post(dialog.aspx, formData) is answered
PostForm ==
    /\ mrPc = "post"
    /\ posts' = posts + 1
    /\ \E r \in Responses : response' = r
    /\ mrPc' = "classify"
    /\ UNCHANGED <<mrSlot, attempt, classified, mrResult>>
    /\ UNCHANGED <<selVars, schedVars, wkVars, tsVars, atVars, psVars>>

\* await this.client.post(dialog.aspx, formData) throws after sending
PostFormThrows ==
    /\ mrPc = "post"
    /\ posts' = posts + 1
    /\ mrPc' = "catch"
    /\ classified' = "exception"
    /\ UNCHANGED <<mrSlot, attempt, response, mrResult>>
    /\ UNCHANGED <<selVars, schedVars, wkVars, tsVars, atVars, psVars>>

\* the success detection after the response was received; a confirmation
\* that does not match returns nothing, so the for loop goes on
ClassifyResponse ==
    /\ mrPc = "classify"
    /\ LET c == Classify(response, mrSlot) IN
       /\ classified' = c
       /\ IF c = "mismatch"
          THEN IF attempt + 1 <= MaxRetries
               THEN /\ attempt' = attempt + 1
                    /\ mrPc' = "form"
                    /\ UNCHANGED mrResult
               ELSE /\ attempt' = attempt + 1
                    /\ mrPc' = "done"
                    /\ mrResult' = [success |-> FALSE, kind |-> "undefined"]
          ELSE /\ mrPc' = "done"
               /\ mrResult' = [success |-> (c = "confirmed"), kind |-> c]
               /\ UNCHANGED attempt
    /\ UNCHANGED <<mrSlot, posts, response>>
    /\ UNCHANGED <<selVars, schedVars, wkVars, tsVars, atVars, psVars>>

\* the catch block: give up on the last attempt, else wait 2 s and retry
CatchRetry ==
    /\ mrPc = "catch"
    /\ IF attempt = MaxRetries
       THEN /\ mrPc' = "done"
            /\ mrResult' = [success |-> FALSE, kind |-> "network"]
            /\ UNCHANGED attempt
       ELSE /\ attempt' = attempt + 1
            /\ mrPc' = "form"
            /\ UNCHANGED mrResult
    /\ UNCHANGED <<mrSlot, posts, response, classified>>
    /\ UNCHANGED <<selVars, schedVars, wkVars, tsVars, atVars, psVars>>

(***************************************************************************)
(* Manual scheduler: cron '* * * * *', its deferred attempts and the       *)
(* trigger endpoint.  The clock counts steps of 10 seconds; day 0 is the   *)
(* current date (CURDATE()).                                               *)
(***************************************************************************)
TickPeriod == 6

DeferWindow == 3

Cooldown == 30

HighPriorityWindow == 6

WindowLeadDays == 7

DayLength == 8640

Today == 0

MaxTime == 36

MaxOpen == 7

MaxDuration == 2

MaxTriggers == 1

\* opensAt as POST /api/bookings computes it: 7 days before the date, at the
\* opening time of day (which lies w steps after the start of the clock)
OpensAtOf(date, w) == (date - WindowLeadDays) * DayLength + w

InitSchedVars ==
    /\ now = 0
    /\ \E date \in {Today - 1, Today, Today + WindowLeadDays}, w \in 0..MaxOpen :
          booking = [date |-> date, opensAt |-> OpensAtOf(date, w),
                     status |-> "pending", type |-> "manual",
                     attempts |-> 0, lastAttempt |-> <<>>]
    /\ inflight = {}
    /\ timers = {}
    /\ lastTickAt = -1
    /\ triggers = 0
    /\ logs = <<>>

IdleSchedVars ==
    /\ now = 0
    /\ booking = [date |-> Today, opensAt |-> 0, status |-> "idle", type |-> "manual",
                  attempts |-> 0, lastAttempt |-> <<>>]
    /\ inflight = {}
    /\ timers = {}
    /\ lastTickAt = -1
    /\ triggers = 0
    /\ logs = <<>>

\* logBookingAttempt(preferenceId, action, status, ...): one INSERT INTO booking_logs
logBookingAttempt(lg, action, status) == Append(lg, [action |-> action, status |-> status])

\* the action column the origin of an attempt writes
ActionOf(origin) == IF origin = "trigger" THEN "manual_trigger" ELSE "auto_attempt"

CooldownPassedAlways(b, t) == TRUE

\* last_attempt IS NULL OR last_attempt < DATE_SUB(NOW(), INTERVAL 5 MINUTE)
CooldownPassed(b, t) ==
    IF b.lastAttempt = <<>> THEN TRUE ELSE b.lastAttempt[1] < t - Cooldown

\* the WHERE clause of the cron query
Selected(b, t) ==
    /\ b.status = "pending"
    /\ b.type = "manual"
    /\ b.date >= Today
    /\ CooldownPassed(b, t)

\* an alternative to InDeferWindow that never defers
InDeferWindowNever(b, t) == FALSE
\* timeUntilOpen > 0 && timeUntilOpen < 30000
InDeferWindow(b, t) ==
    LET timeUntilOpen == b.opensAt - t
    IN  timeUntilOpen > 0 /\ timeUntilOpen < DeferWindow

TickDue == now % TickPeriod = 0 /\ lastTickAt # now

\* a tick whose query does not return the row
CronTickSkip ==
    /\ TickDue
    /\ ~Selected(booking, now)
    /\ lastTickAt' = now
    /\ UNCHANGED <<now, booking, inflight, timers, triggers, logs>>
    /\ UNCHANGED <<selVars, subVars, wkVars, tsVars, atVars, psVars>>

\* a tick that finds the window opening in less than 30 s: setTimeout
CronTickDefer ==
    /\ TickDue
    /\ Selected(booking, now)
    /\ InDeferWindow(booking, now)
    /\ lastTickAt' = now
    /\ timers' = timers \cup {[fireAt |-> now + (booking.opensAt - now)]}
    /\ UNCHANGED <<now, booking, inflight, triggers, logs>>
    /\ UNCHANGED <<selVars, subVars, wkVars, tsVars, atVars, psVars>>

\* a tick that attempts at once (window already open, or far in the future)
CronTickAttempt ==
    /\ TickDue
    /\ Selected(booking, now)
    /\ ~InDeferWindow(booking, now)
    /\ lastTickAt' = now
    /\ inflight' = inflight \cup {[origin |-> "tick", startedAt |-> now]}
    /\ logs' = logBookingAttempt(logs, "auto_attempt", "info")
    /\ UNCHANGED <<now, booking, timers, triggers>>
    /\ UNCHANGED <<selVars, subVars, wkVars, tsVars, atVars, psVars>>

\* the setTimeout callback starts its attempt (the row is not read again)
TimerFires ==
    /\ \E tm \in timers :
          /\ tm.fireAt <= now
          /\ timers' = timers \ {tm}
          /\ inflight' = inflight \cup {[origin |-> "timer", startedAt |-> now]}
    /\ logs' = logBookingAttempt(logs, "auto_attempt", "info")
    /\ UNCHANGED <<now, booking, lastTickAt, triggers>>
    /\ UNCHANGED <<selVars, subVars, wkVars, tsVars, atVars, psVars>>

\* POST /api/bookings/:id/trigger starts an attempt, whatever the status
TriggerStart ==
    /\ booking.status # "idle"
    /\ triggers < MaxTriggers
    /\ [origin |-> "trigger", startedAt |-> now] \notin inflight
    /\ triggers' = triggers + 1
    /\ inflight' = inflight \cup {[origin |-> "trigger", startedAt |-> now]}
    /\ logs' = logBookingAttempt(logs, "manual_trigger", "info")
    /\ UNCHANGED <<now, booking, timers, lastTickAt>>
    /\ UNCHANGED <<selVars, subVars, wkVars, tsVars, atVars, psVars>>

\* result.success: UPDATE ... SET status = 'booked', attempts + 1, last_attempt = NOW()
\* (the portal confirms only once the window is open)
AttemptSucceeds ==
    /\ \E a \in inflight :
          /\ now >= booking.opensAt
          /\ inflight' = inflight \ {a}
          /\ booking' = [booking EXCEPT !.status = "booked",
                                        !.attempts = @ + 1,
                                        !.lastAttempt = <<now>>]
          /\ logs' = logBookingAttempt(logs, ActionOf(a.origin), "success")
    /\ UNCHANGED <<now, timers, lastTickAt, triggers>>
    /\ UNCHANGED <<selVars, subVars, wkVars, tsVars, atVars, psVars>>

\* !result.success: UPDATE ... SET attempts + 1, last_attempt = NOW()
\* (the trigger endpoint gets here only after makeReservation, so only with
\* an open catalog)
AttemptFails ==
    /\ \E a \in inflight :
          /\ a.origin = "trigger" => now >= booking.opensAt
          /\ inflight' = inflight \ {a}
          /\ booking' = [booking EXCEPT !.attempts = @ + 1,
                                        !.lastAttempt = <<now>>]
          /\ logs' = logBookingAttempt(logs, ActionOf(a.origin), "failed")
    /\ UNCHANGED <<now, timers, lastTickAt, triggers>>
    /\ UNCHANGED <<selVars, subVars, wkVars, tsVars, atVars, psVars>>

\* the attempt ends without the UPDATE: the trigger returns early (closed
\* catalog, no slot, exception), or makeReservation returned undefined and
\* result.success throws (only after a submission, so with an open catalog)
AttemptAborts ==
    /\ \E a \in inflight :
          /\ a.origin # "trigger" => now >= booking.opensAt
          /\ inflight' = inflight \ {a}
    /\ UNCHANGED <<now, booking, timers, lastTickAt, triggers, logs>>
    /\ UNCHANGED <<selVars, subVars, wkVars, tsVars, atVars, psVars>>

\* 10 seconds pass; due ticks and timers have fired, attempts end in time
Advance ==
    /\ booking.status # "idle"
    /\ now < MaxTime
    /\ ~TickDue
    /\ \A tm \in timers : tm.fireAt > now
    /\ \A a \in inflight : now < a.startedAt + MaxDuration
    /\ now' = now + 1
    /\ UNCHANGED <<booking, inflight, timers, lastTickAt, triggers, logs>>
    /\ UNCHANGED <<selVars, subVars, wkVars, tsVars, atVars, psVars>>

(***************************************************************************)
(* Recurring weekend automation (weekendAutomation.js) with the handlers   *)
(* of server.js that drive it, and POST /api/bookings.  The scene is a     *)
(* weekend day (Today) at 06:30:00 or later: booking windows of dates up   *)
(* to Today + 7 are open.  Dates are day numbers.                          *)
(***************************************************************************)
maxWeekendBookings == 4

MaxFirings == 2

NumWeekends == 6

Saturday == 6

Sunday == 0

MaxSweeps == 2

MaxCalls == 2

MaxInitRows == 3

\* Date.prototype.getDay() of day number d when today falls on weekday dow
getDayOf(dow, d) == (dow + (d - Today)) % 7

\* (6 - now.getDay() + 7) % 7 || 7
daysUntilSaturday(dow) ==
    LET r == (6 - dow + 7) % 7 IN IF r = 0 THEN 7 ELSE r

\* getNext6Weekends: Saturday and Sunday of the next 6 weekends, in loop order
NextWeekendDates(dow) ==
    [k \in 1..(2 * NumWeekends) |->
        Today + daysUntilSaturday(dow) + 7 * ((k - 1) \div 2) + ((k - 1) % 2)]

\* an alternative to isBookingWindowOpen that finds every window open
isBookingWindowOpenAlways(d) == TRUE
\* now >= targetDate - 7 days at 06:30 (the clock reads 06:30 or later)
isBookingWindowOpen(d) == Today >= d - WindowLeadDays

\* an alternative to getTargetWeekendDate that names the first listed weekend date
getTargetWeekendDateListed == Today + 6
\* getTargetWeekendDate: 7 days from today
getTargetWeekendDate == Today + 7

Row(date, status, type) == [date |-> date, status |-> status, type |-> type]

\* the rows of bag rs that satisfy Keep
RowsWhere(rs, Keep(_)) == [r \in {x \in DOMAIN rs : Keep(x)} |-> rs[r]]

\* INSERT INTO booking_preferences
InsertRow(rs, r) == rs (+) SetToBag({r})

\* SELECT COUNT(*) ... date >= CURDATE() AND DAYOFWEEK(date) IN (1, 7)
\*                     AND status IN ('booked', 'pending')
getBookedWeekendCount(rs, dow) ==
    BagCardinality(RowsWhere(rs, LAMBDA r :
        /\ r.date >= Today
        /\ getDayOf(dow, r.date) \in {Sunday, Saturday}
        /\ r.status \in {"booked", "pending"}))

\* SELECT ... FROM booking_preferences WHERE date = ? : existing.length > 0
hasExistingBooking(rs, d) == \E r \in DOMAIN rs : r.date = d /\ rs[r] > 0

\* a row of weekend_booking_history: target_date, status, booked_time
HistoryEntry(d, status, bookedTime) ==
    [date |-> d, status |-> status, bookedTime |-> bookedTime]

hasFailedAttemptNever(h, d) == FALSE

\* SELECT ... FROM weekend_booking_history WHERE target_date = ?
\*                                           AND status = 'no_slots'
hasFailedAttempt(h, d) == HistoryEntry(d, "no_slots", "null") \in h

\* logWeekendAttempt: INSERT INTO weekend_booking_history (only the
\* existence of an entry per date and status is ever read)
logWeekendAttempt(h, d, status, bookedTime) == h \cup {HistoryEntry(d, status, bookedTime)}

\* an alternative to updateField that always names the Sunday column
updateFieldSunday(day) == "last_sunday_booked"
\* targetDate.getDay() === 6 ? 'last_saturday_booked' : 'last_sunday_booked'
updateField(day) == IF day = Saturday THEN "last_saturday_booked" ELSE "last_sunday_booked"

\* NULL in a DATE column
NullDate == 0 - 1

NoneBooked == [f \in {"last_saturday_booked", "last_sunday_booked"} |-> NullDate]

\* result.slot.time of a confirmed reservation
BookedTimes == {"7:50 AM", "8:10 AM"}

BookingGuardNever(flag) == FALSE

\* if (this.isBookingInProgress) return null;
BookingGuard(flag) == flag

CatchUpGuardNever(flag) == FALSE

\* if (this.catchUpInProgress) return;
CatchUpGuard(flag) == flag

IdleSweep == [pc |-> "idle", bookedCount |-> 0, bookingsMade |-> 0,
              isBooked |-> {}, idx |-> 0]

IdleExec == [pc |-> "idle", date |-> 0, mode |-> "none"]

IdleCreator == [pc |-> "idle", date |-> 0, existing |-> FALSE]

SweepIds == 1..MaxSweeps

ExecCallers ==
    ({"sweep"} \X SweepIds) \cup {<<"rt", 1>>, <<"manual", 1>>}

\* the k-th weekend date after the first listed weekend
FarDate(dow, k) == NextWeekendDates(dow)[2 + k]

\* what findAndBookBestSlot can answer
FetchOutcomes == {"success", "no_slots", "not_open", "failed", "throws"}

\* external |-> cron runs and requests so far, timers |-> pending catch-up timers
NoCalls == [external |-> 0, startupDone |-> FALSE, timers |-> 0, rt |-> 0]

NoSkips == [sweeps |-> FALSE, execs |-> FALSE]

\* a storage read that threw: which read, and the date it asked about
\* (NullDate for a read that asks about no date)
ReadError(read, d) == [read |-> read, date |-> d]

NoReadErrors == [c \in ExecCallers |-> {}]

InitWkVars ==
    /\ todayDow \in {Saturday, Sunday}
    /\ \E n \in {MaxInitRows - 1, MaxInitRows} :
          rows = SetToBag({Row(FarDate(todayDow, k), "booked", "weekend_auto") : k \in 1..n})
    /\ history = {}
    /\ lastBooked = NoneBooked
    /\ readErrors = NoReadErrors
    /\ isEnabled = TRUE
    /\ isBookingInProgress = FALSE
    /\ catchUpInProgress = FALSE
    /\ sweeps = [i \in SweepIds |-> IdleSweep]
    /\ execs = [c \in ExecCallers |-> IdleExec]
    /\ creators = [k \in 1..MaxCalls |-> IdleCreator]
    /\ calls = NoCalls
    /\ skipped = NoSkips
    /\ rtAttempts = 0
    /\ rtFirst = "none"

IdleWkVars ==
    /\ todayDow = Sunday
    /\ rows = EmptyBag
    /\ history = {}
    /\ lastBooked = NoneBooked
    /\ readErrors = NoReadErrors
    /\ isEnabled = FALSE
    /\ isBookingInProgress = FALSE
    /\ catchUpInProgress = FALSE
    /\ sweeps = [i \in SweepIds |-> IdleSweep]
    /\ execs = [c \in ExecCallers |-> IdleExec]
    /\ creators = [k \in 1..MaxCalls |-> IdleCreator]
    /\ calls = NoCalls
    /\ skipped = NoSkips
    /\ rtAttempts = 0
    /\ rtFirst = "none"

\* executeCatchUpBookings is called: the guard, and catchUpInProgress = true
StartSweep ==
    IF CatchUpGuard(catchUpInProgress)
    THEN /\ skipped' = [skipped EXCEPT !.sweeps = TRUE]
         /\ UNCHANGED <<sweeps, catchUpInProgress>>
    ELSE /\ \E i \in SweepIds :
               /\ sweeps[i].pc = "idle"
               /\ \A j \in SweepIds : j < i => sweeps[j].pc # "idle"
               /\ sweeps' = [sweeps EXCEPT ![i] = [IdleSweep EXCEPT !.pc = "start"]]
         /\ catchUpInProgress' = TRUE
         /\ UNCHANGED skipped

\* the finally block of executeCatchUpBookings
FinishSweep(i) ==
    /\ sweeps' = [sweeps EXCEPT ![i] = IdleSweep]
    /\ catchUpInProgress' = FALSE

\* first position from `from' on whose window is open and that the listing
\* did not show as booked (beyond the list if there is none)
NextCandidate(s, dow, from) ==
    LET dates == NextWeekendDates(dow)
        C == {j \in from..Len(dates) :
                 isBookingWindowOpen(dates[j]) /\ dates[j] \notin s.isBooked}
    IN  IF C = {} THEN Len(dates) + 1 ELSE CHOOSE j \in C : \A k \in C : j <= k

\* the for loop of sweep i, in local state s, up to its next await: the
\* limit test and the window test; the loop ends or asks hasFailedAttempt
LoopHead(i, s) ==
    LET availableSlots == maxWeekendBookings - s.bookedCount
        j == NextCandidate(s, todayDow, s.idx)
    IN  IF s.bookingsMade >= availableSlots \/ j > 2 * NumWeekends
        THEN FinishSweep(i)
        ELSE /\ sweeps' = [sweeps EXCEPT ![i] = [s EXCEPT !.pc = "failed", !.idx = j]]
             /\ UNCHANGED catchUpInProgress

\* an alternative to ExecReturn without the finally block
ExecReturnNoFinally(c, success) ==
    /\ execs' = [execs EXCEPT ![c] = IdleExec]
    /\ UNCHANGED isBookingInProgress
    /\ IF c[1] = "sweep"
       THEN sweeps' = [sweeps EXCEPT ![c[2]].pc = "delay",
                                     ![c[2]].bookingsMade = @ + (IF success THEN 1 ELSE 0)]
       ELSE UNCHANGED sweeps
\* executeWeekendBooking returns to its caller (finally: flag = false); the
\* sweep counts a success and goes on to its 5 s delay
ExecReturn(c, success) ==
    /\ execs' = [execs EXCEPT ![c] = IdleExec]
    /\ isBookingInProgress' = FALSE
    /\ IF c[1] = "sweep"
       THEN sweeps' = [sweeps EXCEPT ![c[2]].pc = "delay",
                                     ![c[2]].bookingsMade = @ + (IF success THEN 1 ELSE 0)]
       ELSE UNCHANGED sweeps

\* executeWeekendBooking(d, mode) is called by c: the guard, and
\* isBookingInProgress = true
EnterExec(c, d, mode) ==
    IF BookingGuard(isBookingInProgress)
    THEN /\ skipped' = [skipped EXCEPT !.execs = TRUE]
         /\ UNCHANGED <<isBookingInProgress, execs>>
    ELSE /\ execs[c].pc = "idle"
         /\ execs' = [execs EXCEPT ![c] = [pc |-> "checks", date |-> d, mode |-> mode]]
         /\ isBookingInProgress' = TRUE
         /\ UNCHANGED skipped

\* cron '*/30 * * * *'
CatchUpCron ==
    /\ calls.external < MaxCalls
    /\ calls' = [calls EXCEPT !.external = @ + 1]
    /\ StartSweep
    /\ UNCHANGED <<todayDow, rows, history, isEnabled, isBookingInProgress, execs,
                   creators, rtAttempts, rtFirst>>
    /\ UNCHANGED <<selVars, subVars, schedVars, tsVars, atVars, psVars>>
    /\ UNCHANGED <<lastBooked, readErrors>>

\* the timer of app.listen: catch-up 5 s after the start if enabled
StartupTimer ==
    /\ ~calls.startupDone
    /\ calls' = [calls EXCEPT !.startupDone = TRUE]
    /\ IF isEnabled THEN StartSweep ELSE UNCHANGED <<sweeps, catchUpInProgress, skipped>>
    /\ UNCHANGED <<todayDow, rows, history, isEnabled, isBookingInProgress, execs,
                   creators, rtAttempts, rtFirst>>
    /\ UNCHANGED <<selVars, subVars, schedVars, tsVars, atVars, psVars>>
    /\ UNCHANGED <<lastBooked, readErrors>>

\* POST /api/weekend-settings: store the flag; enabling schedules a catch-up
PostWeekendSettings ==
    /\ calls.external < MaxCalls
    /\ \E enabled \in BOOLEAN :
          /\ isEnabled' = enabled
          /\ calls' = [calls EXCEPT !.external = @ + 1,
                                    !.timers = @ + (IF enabled THEN 1 ELSE 0)]
    /\ UNCHANGED <<todayDow, rows, history, isBookingInProgress, catchUpInProgress,
                   sweeps, execs, creators, skipped, rtAttempts, rtFirst>>
    /\ UNCHANGED <<selVars, subVars, schedVars, tsVars, atVars, psVars>>
    /\ UNCHANGED <<lastBooked, readErrors>>

\* the setTimeout of POST /api/weekend-settings fires
ToggleTimerFires ==
    /\ calls.timers > 0
    /\ calls' = [calls EXCEPT !.timers = @ - 1]
    /\ StartSweep
    /\ UNCHANGED <<todayDow, rows, history, isEnabled, isBookingInProgress, execs,
                   creators, rtAttempts, rtFirst>>
    /\ UNCHANGED <<selVars, subVars, schedVars, tsVars, atVars, psVars>>
    /\ UNCHANGED <<lastBooked, readErrors>>

\* executeCatchUpBookings from isEnabled to the head of the loop: the
\* enabled test, the booked count and its cap test, the weekend listing
SweepReads(i) ==
    /\ sweeps[i].pc = "start"
    /\ LET bookedCount == getBookedWeekendCount(rows, todayDow)
           dates == NextWeekendDates(todayDow)
           listed == [sweeps[i] EXCEPT
                         !.bookedCount = bookedCount,
                         !.idx = 1,
                         !.isBooked = {dates[k] : k \in {j \in DOMAIN dates :
                                                   hasExistingBooking(rows, dates[j])}}]
       IN  IF ~isEnabled \/ bookedCount >= maxWeekendBookings
           THEN FinishSweep(i)
           ELSE LoopHead(i, listed)
    /\ UNCHANGED <<todayDow, rows, history, isEnabled, isBookingInProgress, execs,
                   creators, calls, skipped, rtAttempts, rtFirst>>
    /\ UNCHANGED <<selVars, subVars, schedVars, tsVars, atVars, psVars>>
    /\ UNCHANGED <<lastBooked, readErrors>>

\* await this.hasFailedAttempt(date), then the call of
\* executeWeekendBooking(date, 'catch-up') up to its first await
SweepFailedAttempt(i) ==
    /\ sweeps[i].pc = "failed"
    /\ LET d == NextWeekendDates(todayDow)[sweeps[i].idx] IN
       IF hasFailedAttempt(history, d)
       THEN /\ LoopHead(i, [sweeps[i] EXCEPT !.idx = @ + 1])
            /\ UNCHANGED <<isBookingInProgress, execs, skipped>>
       ELSE /\ EnterExec(<<"sweep", i>>, d, "catch-up")
            /\ sweeps' = [sweeps EXCEPT ![i].pc =
                             IF BookingGuard(isBookingInProgress) THEN "delay" ELSE "exec"]
            /\ UNCHANGED catchUpInProgress
    /\ UNCHANGED <<todayDow, rows, history, isEnabled, creators, calls, rtAttempts, rtFirst>>
    /\ UNCHANGED <<selVars, subVars, schedVars, tsVars, atVars, psVars>>
    /\ UNCHANGED <<lastBooked, readErrors>>

\* the 5 s delay between two bookings of the sweep has passed
SweepDelayEnds(i) ==
    /\ sweeps[i].pc = "delay"
    /\ LoopHead(i, [sweeps[i] EXCEPT !.idx = @ + 1])
    /\ UNCHANGED <<todayDow, rows, history, isEnabled, isBookingInProgress, execs,
                   creators, calls, skipped, rtAttempts, rtFirst>>
    /\ UNCHANGED <<selVars, subVars, schedVars, tsVars, atVars, psVars>>
    /\ UNCHANGED <<lastBooked, readErrors>>

\* cron '0-10 30 6 * * 0,6': executeRealTimeBooking (weekday test, isEnabled,
\* booking limit) and its call of executeWeekendBooking(target, 'real-time')
RealTimeCron ==
    /\ calls.rt < MaxFirings
    /\ calls' = [calls EXCEPT !.rt = @ + 1]
    /\ LET eligible == /\ todayDow \in {Saturday, Sunday}
                       /\ isEnabled
                       /\ getBookedWeekendCount(rows, todayDow) < maxWeekendBookings
       IN  /\ IF eligible
              THEN EnterExec(<<"rt", 1>>, getTargetWeekendDate, "real-time")
              ELSE UNCHANGED <<isBookingInProgress, execs, skipped>>
           /\ rtFirst' = IF calls.rt > 0 THEN rtFirst
                         ELSE IF eligible /\ ~hasExistingBooking(rows, getTargetWeekendDate)
                         THEN "eligible" ELSE "ineligible"
    /\ UNCHANGED <<todayDow, rows, history, isEnabled, catchUpInProgress, sweeps,
                   creators, rtAttempts>>
    /\ UNCHANGED <<selVars, subVars, schedVars, tsVars, atVars, psVars>>
    /\ UNCHANGED <<lastBooked, readErrors>>

\* POST /api/weekend-attempt/:date and its call of
\* executeWeekendBooking(date, 'manual')
WeekendAttempt ==
    /\ calls.external < MaxCalls
    /\ calls' = [calls EXCEPT !.external = @ + 1]
    /\ LET d == NextWeekendDates(todayDow)[1] IN
       IF isEnabled /\ getDayOf(todayDow, d) \in {Sunday, Saturday}
       THEN EnterExec(<<"manual", 1>>, d, "manual")
       ELSE UNCHANGED <<isBookingInProgress, execs, skipped>>
    /\ UNCHANGED <<todayDow, rows, history, isEnabled, catchUpInProgress, sweeps,
                   creators, rtAttempts, rtFirst>>
    /\ UNCHANGED <<selVars, subVars, schedVars, tsVars, atVars, psVars>>
    /\ UNCHANGED <<lastBooked, readErrors>>

\* the 'no_slots' test of catch-up mode
SkipsFailed(c) ==
    execs[c].mode = "catch-up" /\ hasFailedAttempt(history, execs[c].date)

\* executeWeekendBooking from hasExistingBooking to the call of
\* findAndBookBestSlot (credentials, session and guests in order)
ExecChecks(c) ==
    /\ execs[c].pc = "checks"
    /\ IF hasExistingBooking(rows, execs[c].date)
       THEN /\ history' = logWeekendAttempt(history, execs[c].date, "already_booked", "null")
            /\ ExecReturn(c, FALSE)
            /\ UNCHANGED rtAttempts
       ELSE IF SkipsFailed(c)
       THEN /\ ExecReturn(c, FALSE)
            /\ UNCHANGED <<history, rtAttempts>>
       ELSE /\ execs' = [execs EXCEPT ![c].pc = "fetch"]
            /\ rtAttempts' = rtAttempts + (IF execs[c].mode = "real-time" THEN 1 ELSE 0)
            /\ UNCHANGED <<history, isBookingInProgress, sweeps>>
    /\ UNCHANGED <<todayDow, rows, isEnabled, catchUpInProgress, creators, calls,
                   skipped, rtFirst>>
    /\ UNCHANGED <<selVars, subVars, schedVars, tsVars, atVars, psVars>>
    /\ UNCHANGED <<lastBooked, readErrors>>

\* executeWeekendBooking: no credentials, authentication failed or fewer
\* than 3 guests: a 'failed' entry, no attempt
ExecSetupFails(c) ==
    /\ execs[c].pc = "checks"
    /\ ~hasExistingBooking(rows, execs[c].date)
    /\ ~SkipsFailed(c)
    /\ history' = logWeekendAttempt(history, execs[c].date, "failed", "null")
    /\ rtAttempts' = rtAttempts + (IF execs[c].mode = "real-time" THEN 1 ELSE 0)
    /\ ExecReturn(c, FALSE)
    /\ UNCHANGED <<todayDow, rows, isEnabled, catchUpInProgress, creators, calls,
                   skipped, rtFirst>>
    /\ UNCHANGED <<selVars, subVars, schedVars, tsVars, atVars, psVars>>
    /\ UNCHANGED <<lastBooked, readErrors>>

\* findAndBookBestSlot has answered with the given outcome: the row, the
\* marker and the history entry
FetchAnswers(c, outcome) ==
          LET d == execs[c].date IN
          /\ rows' = IF outcome = "success"
                     THEN InsertRow(rows, Row(d, "booked", "weekend_auto"))
                     ELSE rows
          /\ lastBooked' = IF outcome = "success"
                           THEN [lastBooked EXCEPT ![updateField(getDayOf(todayDow, d))] = d]
                           ELSE lastBooked
          /\ \E time \in BookedTimes :
                history' = CASE outcome = "success"  ->
                                    logWeekendAttempt(history, d, "success", time)
                             [] outcome = "no_slots" ->
                                    logWeekendAttempt(history, d, "no_slots", "null")
                             [] outcome = "throws"   -> history
                             [] OTHER                ->
                                    logWeekendAttempt(history, d, "failed", "null")
          /\ ExecReturn(c, outcome = "success")

\* await findAndBookBestSlot(...) returns ('throws': it returns undefined
\* and result.success raises a TypeError, which the catch block swallows)
ExecFetchReturns(c) ==
    /\ execs[c].pc = "fetch"
    /\ \E outcome \in FetchOutcomes : FetchAnswers(c, outcome)
    /\ UNCHANGED <<todayDow, isEnabled, catchUpInProgress, creators, calls,
                   skipped, rtAttempts, rtFirst, readErrors>>
    /\ UNCHANGED <<selVars, subVars, schedVars, tsVars, atVars, psVars>>

\* POST /api/bookings: the duplicate query
CreateSelect(k) ==
    /\ calls.external < MaxCalls
    /\ creators[k].pc = "idle"
    /\ \A j \in 1..MaxCalls : j < k => creators[j].pc # "idle"
    /\ calls' = [calls EXCEPT !.external = @ + 1]
    /\ LET d == getTargetWeekendDate IN
       creators' = [creators EXCEPT ![k] =
                       [pc |-> "selected", date |-> d,
                        existing |-> hasExistingBooking(rows, d)]]
    /\ UNCHANGED <<todayDow, rows, history, isEnabled, isBookingInProgress,
                   catchUpInProgress, sweeps, execs, skipped, rtAttempts, rtFirst>>
    /\ UNCHANGED <<selVars, subVars, schedVars, tsVars, atVars, psVars>>
    /\ UNCHANGED <<lastBooked, readErrors>>

\* POST /api/bookings: 400 for a duplicate, else the INSERT of a pending row
CreateInsert(k) ==
    /\ creators[k].pc = "selected"
    /\ rows' = IF creators[k].existing THEN rows
               ELSE InsertRow(rows, Row(creators[k].date, "pending", "manual"))
    /\ creators' = [creators EXCEPT ![k].pc = IF creators[k].existing THEN "rejected"
                                               ELSE "created"]
    /\ UNCHANGED <<todayDow, history, isEnabled, isBookingInProgress,
                   catchUpInProgress, sweeps, execs, calls, skipped, rtAttempts, rtFirst>>
    /\ UNCHANGED <<selVars, subVars, schedVars, tsVars, atVars, psVars>>
    /\ UNCHANGED <<lastBooked, readErrors>>

\* cron '* * * * *' of the manual scheduler, for one row its query returns:
\* processBooking books a slot and the row is set to booked by its id
ManualTickBooks ==
    /\ \E r \in BagToSet(rows) :
          /\ r.status = "pending"
          /\ r.type = "manual"
          /\ r.date >= Today
          /\ rows' = InsertRow(rows (-) SetToBag({r}), Row(r.date, "booked", r.type))
    /\ UNCHANGED <<todayDow, history, isEnabled, isBookingInProgress, catchUpInProgress,
                   sweeps, execs, creators, calls, skipped, rtAttempts, rtFirst>>
    /\ UNCHANGED <<selVars, subVars, schedVars, tsVars, atVars, psVars>>
    /\ UNCHANGED <<lastBooked, readErrors>>

(***************************************************************************)
(* Storage reads that throw.  Each read function of the automation has a   *)
(* catch block that returns a fixed value; the queries of getNext6Weekends *)
(* have none, and their error ends executeCatchUpBookings in its catch     *)
(* block.  ok = FALSE stands for a query that throws.                      *)
(***************************************************************************)
\* isEnabled: catch (error) { return false; }
isEnabledRead(ok, flag) == IF ok THEN flag ELSE FALSE

\* getBookedWeekendCount: catch (error) { return 0; }
getBookedWeekendCountRead(ok, rs, dow) == IF ok THEN getBookedWeekendCount(rs, dow) ELSE 0

\* hasFailedAttempt: catch (error) { return false; }
hasFailedAttemptRead(ok, h, d) == IF ok THEN hasFailedAttempt(h, d) ELSE FALSE

\* hasExistingBooking: catch (error) { return true; }
hasExistingBookingRead(ok, rs, d) == IF ok THEN hasExistingBooking(rs, d) ELSE TRUE

\* the errors of a sequence of reads: each read is made only if the run got
\* that far (reached), and is recorded if it threw (~ok)
ErrorsOf(reads) == {ReadError(r.read, r.date) : r \in {x \in reads : x.reached /\ ~x.ok}}

ReadOf(read, d, reached, ok) == [read |-> read, date |-> d, reached |-> reached, ok |-> ok]

\* executeCatchUpBookings from isEnabled to the head of the loop, with reads
\* that may throw
SweepReadsStorage(i) ==
    /\ sweeps[i].pc = "start"
    /\ \E okEnabled, okCount, okListing \in BOOLEAN :
          LET enabled == isEnabledRead(okEnabled, isEnabled)
              bookedCount == getBookedWeekendCountRead(okCount, rows, todayDow)
              underCap == enabled /\ bookedCount < maxWeekendBookings
              dates == NextWeekendDates(todayDow)
              listed == [sweeps[i] EXCEPT
                            !.bookedCount = bookedCount,
                            !.idx = 1,
                            !.isBooked = {dates[k] : k \in {j \in DOMAIN dates :
                                                      hasExistingBooking(rows, dates[j])}}]
          IN  /\ readErrors' = [readErrors EXCEPT ![<<"sweep", i>>] =
                     ErrorsOf({ReadOf("enabled", NullDate, TRUE, okEnabled),
                               ReadOf("count", NullDate, enabled, okCount),
                               ReadOf("existing", NullDate, underCap, okListing)})]
              /\ IF ~underCap \/ ~okListing
                 THEN FinishSweep(i)
                 ELSE LoopHead(i, listed)
    /\ UNCHANGED <<todayDow, rows, history, isEnabled, isBookingInProgress, execs,
                   creators, calls, skipped, rtAttempts, rtFirst>>
    /\ UNCHANGED <<selVars, subVars, schedVars, tsVars, atVars, psVars>>
    /\ UNCHANGED lastBooked

\* await this.hasFailedAttempt(date) of the sweep, with a read that may
\* throw, then the call of executeWeekendBooking(date, 'catch-up')
SweepFailedAttemptStorage(i) ==
    /\ sweeps[i].pc = "failed"
    /\ \E ok \in BOOLEAN :
          LET d == NextWeekendDates(todayDow)[sweeps[i].idx] IN
          /\ readErrors' = [readErrors EXCEPT ![<<"sweep", i>>] =
                 @ \cup ErrorsOf({ReadOf("history", d, TRUE, ok)})]
          /\ IF hasFailedAttemptRead(ok, history, d)
             THEN /\ LoopHead(i, [sweeps[i] EXCEPT !.idx = @ + 1])
                  /\ UNCHANGED <<isBookingInProgress, execs, skipped>>
             ELSE /\ EnterExec(<<"sweep", i>>, d, "catch-up")
                  /\ sweeps' = [sweeps EXCEPT ![i].pc =
                                   IF BookingGuard(isBookingInProgress) THEN "delay" ELSE "exec"]
                  /\ UNCHANGED catchUpInProgress
    /\ UNCHANGED <<todayDow, rows, history, isEnabled, creators, calls, rtAttempts, rtFirst>>
    /\ UNCHANGED <<selVars, subVars, schedVars, tsVars, atVars, psVars>>
    /\ UNCHANGED lastBooked

\* executeRealTimeBooking with reads that may throw
RealTimeCronStorage ==
    /\ calls.rt < MaxFirings
    /\ calls' = [calls EXCEPT !.rt = @ + 1]
    /\ \E okEnabled, okCount \in BOOLEAN :
          LET weekend == todayDow \in {Saturday, Sunday}
              enabled == weekend /\ isEnabledRead(okEnabled, isEnabled)
              eligible == /\ enabled
                          /\ getBookedWeekendCountRead(okCount, rows, todayDow)
                                 < maxWeekendBookings
          IN  /\ IF eligible
                 THEN EnterExec(<<"rt", 1>>, getTargetWeekendDate, "real-time")
                 ELSE UNCHANGED <<isBookingInProgress, execs, skipped>>
              /\ readErrors' =
                    IF eligible /\ ~BookingGuard(isBookingInProgress)
                    THEN [readErrors EXCEPT ![<<"rt", 1>>] =
                             ErrorsOf({ReadOf("enabled", NullDate, weekend, okEnabled),
                                       ReadOf("count", NullDate, enabled, okCount)})]
                    ELSE readErrors
              /\ rtFirst' = IF calls.rt > 0 THEN rtFirst
                            ELSE IF eligible /\ ~hasExistingBooking(rows, getTargetWeekendDate)
                            THEN "eligible" ELSE "ineligible"
    /\ UNCHANGED <<todayDow, rows, history, isEnabled, catchUpInProgress, sweeps,
                   creators, rtAttempts>>
    /\ UNCHANGED <<selVars, subVars, schedVars, tsVars, atVars, psVars>>
    /\ UNCHANGED lastBooked

\* executeWeekendBooking from hasExistingBooking to the call of
\* findAndBookBestSlot, with reads that may throw
ExecChecksStorage(c) ==
    /\ execs[c].pc = "checks"
    /\ \E okExisting, okHistory \in BOOLEAN :
          LET d == execs[c].date
              existing == hasExistingBookingRead(okExisting, rows, d)
              asksHistory == ~existing /\ execs[c].mode = "catch-up"
          IN  /\ readErrors' = [readErrors EXCEPT ![c] =
                     @ \cup ErrorsOf({ReadOf("existing", d, TRUE, okExisting),
                                      ReadOf("history", d, asksHistory, okHistory)})]
              /\ IF existing
                 THEN /\ history' = logWeekendAttempt(history, d, "already_booked", "null")
                      /\ ExecReturn(c, FALSE)
                      /\ UNCHANGED rtAttempts
                 ELSE IF asksHistory /\ hasFailedAttemptRead(okHistory, history, d)
                 THEN /\ ExecReturn(c, FALSE)
                      /\ UNCHANGED <<history, rtAttempts>>
                 ELSE /\ execs' = [execs EXCEPT ![c].pc = "fetch"]
                      /\ rtAttempts' = rtAttempts + (IF execs[c].mode = "real-time" THEN 1 ELSE 0)
                      /\ UNCHANGED <<history, isBookingInProgress, sweeps>>
    /\ UNCHANGED <<todayDow, rows, isEnabled, catchUpInProgress, creators, calls,
                   skipped, rtFirst>>
    /\ UNCHANGED <<selVars, subVars, schedVars, tsVars, atVars, psVars>>
    /\ UNCHANGED lastBooked

(***************************************************************************)
(* Catalog fetch (getTeeSheet)                                             *)
(*                                                                         *)
(* The callers pass a date read from a DATE column or built by Date        *)
(* arithmetic, so the call is modelled from the retry loop on; the test    *)
(* for an invalid date that precedes the loop never fires for them.        *)
(***************************************************************************)
maxRetries == 10

\* attempt <= 5 ? formattedDate : paddedDate
LastNonPaddedAttempt == 5

\* String(n): the decimal digits of n
RECURSIVE String(_)
String(n) == IF n < 10 THEN <<n>> ELSE Append(String(n \div 10), n % 10)

\* s.padStart(2, '0')
padStart(s) == IF Len(s) >= 2 THEN s ELSE <<0>> \o s

\* `${date.getMonth() + 1}/${date.getDate()}/${date.getFullYear()}`, kept as
\* its three parts
formattedDate(date) == <<String(date.m), String(date.d), String(date.y)>>

\* the same with month and day padded to two digits
paddedDate(date) == <<padStart(String(date.m)), padStart(String(date.d)), String(date.y)>>

\* an alternative to dateToTry that never changes the date form
dateToTryNonPadded(att, date) == formattedDate(date)
dateToTry(att, date) ==
    IF att <= LastNonPaddedAttempt THEN formattedDate(date) ELSE paddedDate(date)

\* new Date(dateToTry): month/day/year in local time
newDate(str) ==
    [y |-> ParseDigits(str[3]), m |-> ParseDigits(str[1]), d |-> ParseDigits(str[2])]

\* `${expectedDayName}, ${expectedMonthName} ${expectedDateNum}, ${expectedYear}`
tsExpectedDateString(str) ==
    LET expectedDate == newDate(str)
    IN  [day |-> dayNames[getDay(expectedDate) + 1], month |-> monthNames[expectedDate.m],
         num |-> expectedDate.d, year |-> expectedDate.y]

\* an alternative to DateMismatch that accepts every page
DateMismatchNever(page, str) == FALSE
\* !dateText.includes(expectedDateString)
DateMismatch(page, str) == tsExpectedDateString(str) \notin page.dates

\* response.data.includes('txtUsername') || response.data.includes('Login')
IsLoginPage(page) == page.login

NoOutcome == [kind |-> "none", teeSheet |-> parseTeeSheet(NoPayload), error |-> "none"]

\* an alternative to NetworkError that drops the cause
NetworkErrorBare(error) == "unknown"
\* new Error(`Network error after ${maxRetries} attempts: ${error.code || error.message}`),
\* kept as the code or message it carries
NetworkError(error) == error

\* error.code || error.message of a failed request
TransportErrors == {"ETIMEDOUT", "ECONNREFUSED", "Request failed with status code", "ECONNRESET"}

\* the dates getTeeSheet is called for: one- and two-digit months and days
FetchDates == {DateOf(9, 6), DateOf(9, 13), DateOf(10, 4), DateOf(10, 11)}

\* the dates the portal falls back to
DefaultDates == {DateOf(8, 30), DateOf(10, 1)}

DateForms == {"non-padded", "padded"}

\* month and day have two digits each
IsPaddedForm(str) == Len(str[1]) = 2 /\ Len(str[2]) = 2

\* month and day have no leading zero
IsNonPaddedForm(str) == str[1][1] # 0 /\ str[2][1] # 0

\* the portal understands the Date parameter
PeerUnderstands(str) ==
    \/ "padded" \in peerAccepts /\ IsPaddedForm(str)
    \/ "non-padded" \in peerAccepts /\ IsNonPaddedForm(str)

\* the page the portal answers a dated request with: the tee sheet of the
\* date asked for if it understands the parameter, else of its default date;
\* or the login page, which shows no date
PageKinds == {"open", "closed", "sheet with login text", "login page"}

PeerPage(str, kind) ==
    LET shown == IF PeerUnderstands(str) THEN newDate(str) ELSE peerDefault
    IN  IF kind = "login page"
        THEN [NoPayload EXCEPT !.login = TRUE]
        ELSE [NoPayload EXCEPT !.dates = {LongDate(shown)},
                               !.login = kind = "sheet with login text",
                               !.notOpenText = IF kind = "closed" THEN NotOpenText ELSE "",
                               !.countdown = IF kind = "closed" THEN CountdownText ELSE "",
                               !.sheet = shown]

InitTsVars ==
    /\ tsDate = NoDate
    /\ tsPc = "idle"
    /\ tsAttempt = 0
    /\ sentDate = <<>>
    /\ tsRequests = [initial |-> 0, dated |-> 0]
    /\ payload = NoPayload
    /\ tsError = "none"
    /\ tsOutcome = NoOutcome
    /\ peerAccepts \in SUBSET DateForms
    /\ peerDefault \in DefaultDates

IdleTsVars ==
    /\ tsDate = NoDate
    /\ tsPc = "idle"
    /\ tsAttempt = 0
    /\ sentDate = <<>>
    /\ tsRequests = [initial |-> 0, dated |-> 0]
    /\ payload = NoPayload
    /\ tsError = "none"
    /\ tsOutcome = NoOutcome
    /\ peerAccepts = {}
    /\ peerDefault = DateOf(8, 30)

\* top of the loop body: the first request of attempt att is sent
BeginAttempt(att) ==
    /\ tsAttempt' = att
    /\ tsPc' = "initial"
    /\ tsRequests' = [tsRequests EXCEPT !.initial = @ + 1]
    /\ UNCHANGED <<tsError, tsOutcome>>

\* catch (error): throw on the last attempt, else wait 2 s
Catch(error) ==
    /\ tsError' = error
    /\ IF tsAttempt = maxRetries
       THEN /\ tsOutcome' = [NoOutcome EXCEPT !.kind = "thrown", !.error = NetworkError(error)]
            /\ tsPc' = "done"
       ELSE /\ tsOutcome' = tsOutcome
            /\ tsPc' = "delay"
    /\ UNCHANGED <<tsAttempt, tsRequests>>

\* getTeeSheet(date) is called
GetTeeSheet ==
    /\ tsPc = "idle"
    /\ \E date \in FetchDates : tsDate' = date
    /\ BeginAttempt(1)
    /\ UNCHANGED <<sentDate, payload, peerAccepts, peerDefault>>
    /\ UNCHANGED <<selVars, subVars, schedVars, wkVars, atVars, psVars>>

\* Step 1 answers; Step 2 is sent with Date: dateToTry
InitialPageLoads ==
    /\ tsPc = "initial"
    /\ sentDate' = dateToTry(tsAttempt, tsDate)
    /\ tsRequests' = [tsRequests EXCEPT !.dated = @ + 1]
    /\ tsPc' = "dated"
    /\ UNCHANGED <<tsDate, tsAttempt, payload, tsError, tsOutcome, peerAccepts, peerDefault>>
    /\ UNCHANGED <<selVars, subVars, schedVars, wkVars, atVars, psVars>>

\* Step 1 fails
InitialPageFails ==
    /\ tsPc = "initial"
    /\ \E error \in TransportErrors : Catch(error)
    /\ UNCHANGED <<tsDate, sentDate, payload, peerAccepts, peerDefault>>
    /\ UNCHANGED <<selVars, subVars, schedVars, wkVars, atVars, psVars>>

\* Step 2 fails
DatedRequestFails ==
    /\ tsPc = "dated"
    /\ \E error \in TransportErrors : Catch(error)
    /\ UNCHANGED <<tsDate, sentDate, payload, peerAccepts, peerDefault>>
    /\ UNCHANGED <<selVars, subVars, schedVars, wkVars, atVars, psVars>>

\* Step 2 answers: date validation, login test, parseTeeSheet
DatedRequestAnswers ==
    /\ tsPc = "dated"
    /\ \E kind \in PageKinds : payload' = PeerPage(sentDate, kind)
    /\ IF DateMismatch(payload', sentDate)
       THEN IF tsAttempt < maxRetries
            THEN BeginAttempt(tsAttempt + 1)
            ELSE Catch("Date mismatch")
       ELSE IF IsLoginPage(payload')
            THEN Catch("Session expired - got login page")
            ELSE /\ tsOutcome' = [NoOutcome EXCEPT !.kind = "returned",
                                                   !.teeSheet = parseTeeSheet(payload')]
                 /\ tsPc' = "done"
                 /\ UNCHANGED <<tsAttempt, tsRequests, tsError>>
    /\ UNCHANGED <<tsDate, sentDate, peerAccepts, peerDefault>>
    /\ UNCHANGED <<selVars, subVars, schedVars, wkVars, atVars, psVars>>

\* the 2 s between attempts have passed
RetryDelayEnds ==
    /\ tsPc = "delay"
    /\ BeginAttempt(tsAttempt + 1)
    /\ UNCHANGED <<tsDate, sentDate, payload, peerAccepts, peerDefault>>
    /\ UNCHANGED <<selVars, subVars, schedVars, wkVars, atVars, psVars>>

(***************************************************************************)
(* One booking attempt and the portal session: processBooking (ticks and   *)
(* deferred attempts of the manual scheduler), the trigger endpoint and    *)
(* executeWeekendBooking.  The server and the weekend automation each own  *)
(* a GolfBookingService; attempts are taken one after the other.           *)
(***************************************************************************)
MaxAttempts == 3

\* guests.length < 3
MinGuests == 3

Instances == {"server", "weekend"}

AttemptKinds == {"processBooking", "trigger", "executeWeekendBooking"}

\* the GolfBookingService an attempt uses
InstanceOf(kind) == IF kind = "executeWeekendBooking" THEN "weekend" ELSE "server"

\* a GolfBookingService after its constructor: sessionToken is '', the
\* property cookies is never assigned, the cookie jar is empty
NewService == [sessionToken |-> "", cookies |-> "undefined", jar |-> FALSE]

\* where authenticate can end: the requests loginStep1 and loginStep2, the
\* two session requests with the login-marker test, or success
AuthOutcomes == {"loginStep1 failed", "loginStep2 failed", "Login failed", "success"}

\* this.sessionToken = tokenData.token is reached once loginStep2 was answered
authenticate(svc, outcome) ==
    IF outcome \in {"loginStep1 failed", "loginStep2 failed"} THEN svc
    ELSE [svc EXCEPT !.sessionToken = "token", !.jar = (outcome = "success")]

\* !bookingService.cookies || !bookingService.sessionToken
ServerNeedsAuth(svc) == svc.cookies = "undefined" \/ svc.sessionToken = ""

\* !this.bookingService.sessionToken
WeekendNeedsAuth(svc) == svc.sessionToken = ""

NoAttempt == [kind |-> "none", pc |-> "idle"]

InitAtVars ==
    /\ guestList \in 0..MinGuests
    /\ service = [i \in Instances |-> NewService]
    /\ portalSession = [i \in Instances |-> FALSE]
    /\ cur = NoAttempt
    /\ prev = [i \in Instances |-> "none"]
    /\ attemptsRun = 0
    /\ handshakes = [i \in Instances |-> 0]
    /\ submissions = 0

IdleAtVars ==
    /\ guestList = MinGuests
    /\ service = [i \in Instances |-> NewService]
    /\ portalSession = [i \in Instances |-> FALSE]
    /\ cur = NoAttempt
    /\ prev = [i \in Instances |-> "none"]
    /\ attemptsRun = 0
    /\ handshakes = [i \in Instances |-> 0]
    /\ submissions = 0

\* an attempt of the given kind starts at the given position
BeginAt(kind, pc) ==
    /\ cur = NoAttempt
    /\ attemptsRun < MaxAttempts
    /\ attemptsRun' = attemptsRun + 1
    /\ cur' = [kind |-> kind, pc |-> pc]
    /\ handshakes' = IF pc = "auth"
                     THEN [handshakes EXCEPT ![InstanceOf(kind)] = @ + 1]
                     ELSE handshakes
    /\ UNCHANGED <<guestList, service, portalSession, prev, submissions>>

\* the attempt ends with the given outcome
EndWith(outcome) ==
    /\ cur' = NoAttempt
    /\ prev' = [prev EXCEPT ![InstanceOf(cur.kind)] = outcome]

\* processBooking is called by a tick or a deferred attempt: "Authenticate if needed"
ProcessBooking ==
    /\ BeginAt("processBooking",
               IF ServerNeedsAuth(service["server"]) THEN "auth" ELSE "guests")
    /\ UNCHANGED <<selVars, subVars, schedVars, wkVars, tsVars, psVars>>

\* POST /api/bookings/:id/trigger: authenticates on every call
TriggerBooking ==
    /\ BeginAt("trigger", "auth")
    /\ UNCHANGED <<selVars, subVars, schedVars, wkVars, tsVars, psVars>>

\* executeWeekendBooking gets past its guard and the tests of the stored
\* rows: "Authenticate if needed"
ExecuteWeekendBooking ==
    /\ BeginAt("executeWeekendBooking",
               IF WeekendNeedsAuth(service["weekend"]) THEN "auth" ELSE "guests")
    /\ UNCHANGED <<selVars, subVars, schedVars, wkVars, tsVars, psVars>>

\* await authenticate(username, password) returns
AuthenticateReturns ==
    /\ cur.pc = "auth"
    /\ \E outcome \in AuthOutcomes :
          LET i == InstanceOf(cur.kind) IN
          /\ service' = [service EXCEPT ![i] = authenticate(@, outcome)]
          /\ IF outcome = "success"
             THEN /\ portalSession' = [portalSession EXCEPT ![i] = TRUE]
                  /\ cur' = [cur EXCEPT !.pc = IF cur.kind = "trigger" THEN "fetch"
                                               ELSE "guests"]
                  /\ UNCHANGED prev
             ELSE /\ EndWith("Authentication failed")
                  /\ UNCHANGED portalSession
    /\ UNCHANGED <<guestList, attemptsRun, handshakes, submissions>>
    /\ UNCHANGED <<selVars, subVars, schedVars, wkVars, tsVars, psVars>>

\* SELECT * FROM guest_list WHERE is_active = 1 LIMIT 3 and the test of
\* guests.length in processBooking and executeWeekendBooking
GuestsRead ==
    /\ cur.pc = "guests"
    /\ IF guestList < MinGuests
       THEN EndWith("Not enough guests")
       ELSE cur' = [cur EXCEPT !.pc = "fetch"] /\ UNCHANGED prev
    /\ UNCHANGED <<guestList, service, portalSession, attemptsRun, handshakes, submissions>>
    /\ UNCHANGED <<selVars, subVars, schedVars, wkVars, tsVars, psVars>>

\* getTeeSheet and the slot selection end: with the login page when the
\* portal has no session for the cookie jar, else with a closed catalog or
\* no slot in range, or with a slot to reserve
TeeSheetFetched ==
    /\ cur.pc = "fetch"
    /\ IF ~portalSession[InstanceOf(cur.kind)]
       THEN EndWith("Session expired - got login page")
       ELSE \E found \in BOOLEAN :
               IF found THEN cur' = [cur EXCEPT !.pc = "reserve"] /\ UNCHANGED prev
               ELSE EndWith("No available slots")
    /\ UNCHANGED <<guestList, service, portalSession, attemptsRun, handshakes, submissions>>
    /\ UNCHANGED <<selVars, subVars, schedVars, wkVars, tsVars, psVars>>

\* makeReservation(targetSlot, guests) submits the form and returns; the
\* trigger endpoint reads the guest list only here and does not test it
ReservationMade ==
    /\ cur.pc = "reserve"
    /\ submissions' = submissions + 1
    /\ \E outcome \in {"booked", "rejected"} : EndWith(outcome)
    /\ UNCHANGED <<guestList, service, portalSession, attemptsRun, handshakes>>
    /\ UNCHANGED <<selVars, subVars, schedVars, wkVars, tsVars, psVars>>

\* the portal drops the session of a cookie jar
SessionExpires ==
    /\ cur = NoAttempt
    /\ \E i \in Instances :
          /\ portalSession[i]
          /\ portalSession' = [portalSession EXCEPT ![i] = FALSE]
    /\ UNCHANGED <<guestList, service, cur, prev, attemptsRun, handshakes, submissions>>
    /\ UNCHANGED <<selVars, subVars, schedVars, wkVars, tsVars, psVars>>

(***************************************************************************)
(* parseAvailableSlots applied to a page, twice                            *)
(***************************************************************************)
MaxDescriptors == 3

CallDates == {"09/06/2025", "09/07/2025"}
CallTimes == {"7:50 AM", "8:10 AM"}
SpotTexts == {<<0>>, <<2>>, <<4>>}

\* LaunchReserver('95', date, time, '1', '0', availableSpots)
Calls ==
    {[courseId |-> "95", date |-> d, time |-> t, tee |-> "1", currentPlayers |-> <<0>>,
      availableSpots |-> n] : d \in CallDates, t \in CallTimes, n \in SpotTexts}

CallLists == UNION {[1..n -> Calls] : n \in 0..MaxDescriptors}

InitPsVars ==
    /\ \E layout \in Layouts, cl \in CallLists :
          html = [NoPayload EXCEPT !.layout = layout, !.calls = cl]
    /\ parsed = <<>>
    /\ reparsed = <<>>
    /\ psPc = "start"

IdlePsVars ==
    /\ html = NoPayload
    /\ parsed = <<>>
    /\ reparsed = <<>>
    /\ psPc = "idle"

\* const slots = this.parseAvailableSlots(html)
ParseAvailableSlots ==
    /\ psPc = "start"
    /\ parsed' = parseAvailableSlots(html)
    /\ psPc' = "parsed"
    /\ UNCHANGED <<html, reparsed>>
    /\ UNCHANGED <<selVars, subVars, schedVars, wkVars, tsVars, atVars>>

\* the same payload is parsed once more
ParseAgain ==
    /\ psPc = "parsed"
    /\ reparsed' = parseAvailableSlots(html)
    /\ psPc' = "parsed twice"
    /\ UNCHANGED <<html, parsed>>
    /\ UNCHANGED <<selVars, subVars, schedVars, wkVars, tsVars, atVars>>

(***************************************************************************)
(* Specifications                                                          *)
(***************************************************************************)
InitSelect == InitSelVars /\ IdleSubVars /\ IdleSchedVars /\ IdleWkVars /\ IdleTsVars /\ IdleAtVars /\ IdlePsVars

NextSelect ==
    \/ GetTeeSheetOpen
    \/ GetTeeSheetClosed
    \/ GetTeeSheetThrows
    \/ SelectSlot
    \/ ReservationReturns

SpecSelect == InitSelect /\ [][NextSelect]_vars

InitSelectText == InitSelTextVars /\ IdleSubVars /\ IdleSchedVars /\ IdleWkVars /\ IdleTsVars /\ IdleAtVars /\ IdlePsVars

SpecSelectText == InitSelectText /\ [][NextSelect]_vars

InitSubmit == IdleSelVars /\ InitSubVars /\ IdleSchedVars /\ IdleWkVars /\ IdleTsVars /\ IdleAtVars /\ IdlePsVars

NextSubmit ==
    \/ GetBookingForm
    \/ GetBookingFormThrows
    \/ PostForm
    \/ PostFormThrows
    \/ ClassifyResponse
    \/ CatchRetry

SpecSubmit == InitSubmit /\ [][NextSubmit]_vars

InitSched == IdleSelVars /\ IdleSubVars /\ InitSchedVars /\ IdleWkVars /\ IdleTsVars /\ IdleAtVars /\ IdlePsVars

NextSched ==
    \/ CronTickSkip
    \/ CronTickDefer
    \/ CronTickAttempt
    \/ TimerFires
    \/ TriggerStart
    \/ AttemptSucceeds
    \/ AttemptFails
    \/ AttemptAborts
    \/ Advance

SpecSched == InitSched /\ [][NextSched]_vars

InitWeekend == IdleSelVars /\ IdleSubVars /\ IdleSchedVars /\ InitWkVars /\ IdleTsVars /\ IdleAtVars /\ IdlePsVars

NextWeekend ==
    \/ CatchUpCron
    \/ StartupTimer
    \/ PostWeekendSettings
    \/ ToggleTimerFires
    \/ \E i \in SweepIds : SweepReads(i)
    \/ \E i \in SweepIds : SweepFailedAttempt(i)
    \/ \E i \in SweepIds : SweepDelayEnds(i)
    \/ RealTimeCron
    \/ WeekendAttempt
    \/ \E c \in ExecCallers : ExecChecks(c)
    \/ \E c \in ExecCallers : ExecSetupFails(c)
    \/ \E c \in ExecCallers : ExecFetchReturns(c)
    \/ \E k \in 1..MaxCalls : CreateSelect(k)
    \/ \E k \in 1..MaxCalls : CreateInsert(k)
    \/ ManualTickBooks

SpecWeekend == InitWeekend /\ [][NextWeekend]_vars

\* the catch-up and real-time runs over a storage whose reads may throw
NextStorage ==
    \/ CatchUpCron
    \/ \E i \in SweepIds : SweepReadsStorage(i)
    \/ \E i \in SweepIds : SweepFailedAttemptStorage(i)
    \/ \E i \in SweepIds : SweepDelayEnds(i)
    \/ RealTimeCronStorage
    \/ \E c \in ExecCallers : ExecChecksStorage(c)
    \/ \E c \in ExecCallers : ExecSetupFails(c)
    \/ \E c \in ExecCallers : ExecFetchReturns(c)

SpecStorage == InitWeekend /\ [][NextStorage]_vars

InitFetch == IdleSelVars /\ IdleSubVars /\ IdleSchedVars /\ IdleWkVars /\ InitTsVars /\ IdleAtVars /\ IdlePsVars

NextFetch ==
    \/ GetTeeSheet
    \/ InitialPageLoads
    \/ InitialPageFails
    \/ DatedRequestFails
    \/ DatedRequestAnswers
    \/ RetryDelayEnds

SpecFetch == InitFetch /\ [][NextFetch]_vars

\* every request settles (the client has a 10 s timeout) and every timer
\* fires, so a step that is possible is eventually taken
SpecFetchLive == InitFetch /\ [][NextFetch]_vars /\ WF_vars(NextFetch)

InitAttempt ==
    IdleSelVars /\ IdleSubVars /\ IdleSchedVars /\ IdleWkVars /\ IdleTsVars /\ InitAtVars
    /\ IdlePsVars

NextAttempt ==
    \/ ProcessBooking
    \/ TriggerBooking
    \/ ExecuteWeekendBooking
    \/ AuthenticateReturns
    \/ GuestsRead
    \/ TeeSheetFetched
    \/ ReservationMade
    \/ SessionExpires

SpecAttempt == InitAttempt /\ [][NextAttempt]_vars

InitParse ==
    IdleSelVars /\ IdleSubVars /\ IdleSchedVars /\ IdleWkVars /\ IdleTsVars /\ IdleAtVars
    /\ InitPsVars

NextParse ==
    \/ ParseAvailableSlots
    \/ ParseAgain

SpecParse == InitParse /\ [][NextParse]_vars

(***************************************************************************)
(* Properties of the slot selection (SpecSelect)                           *)
(***************************************************************************)
\* the selection has run on an open catalog
Selected4Booking == fbPc \in {"reserve", "done"} /\ teeSheet.available

\* minute-of-day window of the call
MinuteInWindow(t) ==
    timeToMinutes(preferredTime) <= t /\ t <= timeToMinutes(maxTime)

\* positions of the catalog whose time lies in the window
InWindowIdx == {i \in 1..Len(slots) : MinuteInWindow(timeToMinutes(slots[i].time))}

\* C1: every slot handed to makeReservation (normal or fast mode) has its
\* minute-of-day inside [earliest, latest], bounds included; when no slot of
\* the catalog is in the window nothing is submitted and the call returns the
\* 'No available slots' failure.
C1_WindowSafety ==
    Selected4Booking =>
        /\ \A k \in 1..Len(submitted) :
              MinuteInWindow(timeToMinutes(submitted[k].time))
        /\ InWindowIdx = {} =>
              /\ submitted = <<>>
              /\ fbPc = "done"
              /\ ~fbResult.success
              /\ fbResult.message = NoSlotsMessage

\* a slot was submitted although the catalog lists a fuller slot after the
\* upper bound of the window
C1_Witness ==
    /\ fbPc = "done"
    /\ Len(submitted) = 1
    /\ \E i \in 1..Len(slots) :
          /\ i \notin InWindowIdx
          /\ slots[i].availableSpots > submitted[1].availableSpots
          /\ timeToMinutes(slots[i].time) > timeToMinutes(maxTime)

\* C2: the tiers are tried in the order 4, 3, 2, 1 and the choice comes from
\* the first tier with an in-window slot: a slot is submitted whenever some
\* slot is in the window, and no in-window slot has more remaining seats than
\* the submitted one (so a full slot is chosen whenever one is in the window).
C2_TierFallback ==
    Selected4Booking =>
        /\ InWindowIdx # {} => Len(submitted) = 1
        /\ \A k \in 1..Len(submitted) : \A i \in InWindowIdx :
              slots[i].availableSpots <= submitted[k].availableSpots
        /\ (\E i \in InWindowIdx : slots[i].availableSpots = FullCapacity) =>
              /\ Len(submitted) = 1
              /\ submitted[1].availableSpots = FullCapacity

\* a partial slot was submitted although the catalog starts with an
\* in-window slot that has fewer seats left
C2_Witness ==
    /\ fbPc = "done"
    /\ Len(submitted) = 1
    /\ submitted[1].availableSpots \in 2..(FullCapacity - 1)
    /\ 1 \in InWindowIdx
    /\ slots[1].availableSpots < submitted[1].availableSpots

\* in-window positions of the tier that was chosen
ChosenTierIdx ==
    {i \in InWindowIdx : submitted # <<>> /\ slots[i].availableSpots = submitted[1].availableSpots}

\* the catalog lists its slots in non-decreasing time of day
CatalogSorted ==
    \A i, j \in 1..Len(slots) :
        i < j => timeToMinutes(slots[i].time) <= timeToMinutes(slots[j].time)

\* C3 (as claimed): in any catalog order the submitted slot has the smallest
\* minute-of-day among the in-window slots of the chosen tier.
C3_EarliestInTier ==
    (Selected4Booking /\ submitted # <<>>) =>
        \A i \in ChosenTierIdx :
            timeToMinutes(submitted[1].time) <= timeToMinutes(slots[i].time)

\* C3 (amended): the submitted slot is the first in catalog order among the
\* in-window slots of the chosen tier; it has the smallest minute-of-day of
\* that tier whenever the catalog lists the slots in time order.
C3_FirstInCatalogOrder ==
    (Selected4Booking /\ submitted # <<>>) =>
        /\ \E j \in ChosenTierIdx :
              /\ slots[j] = submitted[1]
              /\ \A i \in ChosenTierIdx : j <= i
        /\ CatalogSorted =>
              \A i \in ChosenTierIdx :
                  timeToMinutes(submitted[1].time) <= timeToMinutes(slots[i].time)

\* the chosen tier holds several in-window slots and the catalog lists a
\* later time of day before an earlier one
C3_Witness ==
    /\ fbPc = "done"
    /\ submitted # <<>>
    /\ Cardinality(ChosenTierIdx) >= 2
    /\ ~CatalogSorted
    /\ \E i \in ChosenTierIdx :
          timeToMinutes(slots[i].time) < timeToMinutes(submitted[1].time)

\* C4: fast mode and normal mode submit the same slot for the same catalog and
\* window and report 'no slot' in the same cases: what the mode that ran has
\* submitted is what the other mode selects.
C4_FastNormalAgree ==
    /\ Selected4Booking =>
          LET other == IF fastMode THEN NormalSelect(slots, preferredTime, maxTime)
                       ELSE FastSelect(slots, preferredTime, maxTime)
          IN  /\ submitted = other
              /\ (fbPc = "done" /\ fbResult.kind = "no_slots") <=> other = <<>>
    /\ (fbPc = "done" /\ ~teeSheet.available) => submitted = <<>>

\* fast mode submitted a partial slot that is not the first in-window slot of
\* the catalog
C4_Witness ==
    /\ fbPc = "done"
    /\ fastMode
    /\ Len(submitted) = 1
    /\ Len(slots) >= 2
    /\ 1 \in InWindowIdx
    /\ slots[1] # submitted[1]

(***************************************************************************)
(* Properties of the reservation submission (SpecSubmit)                   *)
(***************************************************************************)
\* the last event of the call was the classification of `response'
ResponseClassified ==
    /\ mrPc \in {"form", "post", "catch", "done"}
    /\ classified \notin {"none", "exception"}

\* the confirmation block names another date or another time than requested
ConfirmationMismatch ==
    /\ "CONFIRMATION" \in response.markers
    /\ \/ response.actualDate # LongDate(mrSlot.date)
       \/ response.actualTime # mrSlot.time

\* C5: a response that carries the confirmation marker but confirms another
\* date or time than requested (also another date on the same weekday) makes
\* makeReservation return a result with success = false, never success = true.
C5_MismatchIsFailure ==
    (mrPc = "done" /\ ResponseClassified /\ ConfirmationMismatch) =>
        /\ ~mrResult.success
        /\ mrResult.kind # "undefined"

\* C6: within one call the form is submitted again only after a network-level
\* exception and at most 10 times; a received and classified response ends
\* the call with a definite {success: false} result (or the confirmation).
C6_BusinessFailureTerminal ==
    [][ /\ (posts' > posts /\ posts > 0) => classified = "exception"
        /\ posts' <= MaxRetries
        /\ (mrPc = "classify" /\ mrPc' # "classify") =>
              /\ mrPc' = "done"
              /\ mrResult'.kind \notin {"undefined", "none"}
      ]_vars

\* C7: the outcome follows the first marker found in the order confirmation,
\* slot unavailable, weekday restriction, rule conflict, generic error; no
\* marker at all is the failure 'response unclear'; success = true needs the
\* confirmation marker.
C7_ClassificationOrder ==
    ResponseClassified =>
        LET ms == response.markers IN
        /\ "CONFIRMATION" \in ms => classified \in {"confirmed", "mismatch"}
        /\ "CONFIRMATION" \notin ms =>
              classified =
                 IF "SLOT_UNAVAILABLE" \in ms THEN "SLOT_UNAVAILABLE"
                 ELSE IF "WEEKDAY_RESTRICTION" \in ms THEN "WEEKDAY_RESTRICTION"
                 ELSE IF "RULE_CONFLICT" \in ms THEN "RULE_CONFLICT"
                 ELSE IF "ERROR" \in ms THEN "error"
                 ELSE "unclear"
        /\ mrPc = "done" =>
              /\ mrResult.success => "CONFIRMATION" \in ms
              /\ "CONFIRMATION" \notin ms =>
                    /\ ~mrResult.success
                    /\ mrResult.kind = classified

\* a response with several failure markers was reported by the first of them
C7_Witness ==
    /\ mrPc = "done"
    /\ classified = "WEEKDAY_RESTRICTION"
    /\ mrResult = [success |-> FALSE, kind |-> "WEEKDAY_RESTRICTION"]
    /\ response.markers = {"WEEKDAY_RESTRICTION", "RULE_CONFLICT", "ERROR"}

(***************************************************************************)
(* Properties of the manual scheduler (SpecSched)                          *)
(***************************************************************************)
\* this step is a cron tick
TickStep == TickDue /\ lastTickAt' = now

\* this step starts an attempt or schedules one
StartsAttempt == inflight' # inflight \/ timers' # timers

\* C8: a tick that finds a pending manual request whose window opens within
\* the next 60 seconds makes or schedules an attempt, even if the last
\* attempt was less than 5 minutes ago.
C8_HighPriorityBypass ==
    [][ ( /\ TickStep
          /\ booking.status = "pending"
          /\ booking.type = "manual"
          /\ booking.date >= Today
          /\ booking.opensAt - now >= 0
          /\ booking.opensAt - now <= HighPriorityWindow )
        => StartsAttempt ]_vars

\* no attempt yet, or the last one more than 5 minutes before the tick
MoreThan5MinutesAgo ==
    IF booking.lastAttempt = <<>> THEN TRUE
    ELSE now - booking.lastAttempt[1] > Cooldown

C10_SingleAttemptInFlight ==
    /\ Cardinality(inflight) <= 1
    /\ inflight # {} => booking.status = "processing"

\* this step ends a booking attempt
AttemptEnds == \E a \in inflight : inflight' = inflight \ {a}

\* this step starts a booking attempt
AttemptStarts == \E a \in inflight' : a \notin inflight /\ inflight' = inflight \cup {a}

\* C11: every attempt started for the request appends an 'info' log entry at
\* its start and, whatever its outcome, ends by increasing the attempt count
\* by exactly 1, setting last-attempt and appending exactly one terminal
\* ('success' or 'failed') log entry.
C11_AttemptBookkeeping ==
    [][ /\ AttemptStarts =>
              /\ Len(logs') = Len(logs) + 1
              /\ logs'[Len(logs')].status = "info"
        /\ AttemptEnds =>
              /\ booking'.attempts = booking.attempts + 1
              /\ booking'.lastAttempt = <<now>>
              /\ Len(logs') = Len(logs) + 1
              /\ logs'[Len(logs')].status \in {"success", "failed"}
      ]_vars

(***************************************************************************)
(* Properties of the weekend automation (SpecWeekend)                      *)
(***************************************************************************)
\* number of pending rows of bag rs for date d
PendingRows(rs, d) ==
    BagCardinality(RowsWhere(rs, LAMBDA r : r.date = d /\ r.status = "pending"))

\* C12: for each target date at most one row is pending, under every
\* interleaving of POST /api/bookings calls with each other and with weekend
\* booking attempts, and a rejected duplicate leaves the rows unchanged.
C12_OneOpenRequestPerDate ==
    [][ /\ \A r \in DOMAIN rows' : PendingRows(rows', r.date) <= 1
        /\ \A k \in DOMAIN creators :
              (creators[k].pc = "selected" /\ creators'[k].pc = "rejected") =>
                  rows' = rows
      ]_vars

\* this step ends a catch-up sweep
SweepCompletes == \E i \in SweepIds : sweeps[i].pc # "idle" /\ sweeps'[i].pc = "idle"

\* C13: whenever a catch-up sweep completes, the weekend rows that are
\* pending or booked and not in the past number at most the cap (4), also
\* when a real-time attempt or a POST /api/bookings ran during the sweep.
C13_CapAfterSweep ==
    [][ SweepCompletes =>
            getBookedWeekendCount(rows', todayDow) <= maxWeekendBookings ]_vars

\* the callers whose executeWeekendBooking is past the guard
PastGuard == {c \in ExecCallers : execs[c].pc \in {"checks", "fetch"}}

\* this step is a call of executeWeekendBooking (or of one of the drivers)
ExecCallArrives ==
    \/ calls'.rt = calls.rt + 1
    \/ calls'.external = calls.external + 1 /\ creators' = creators
    \/ \E i \in SweepIds : sweeps[i].pc = "failed" /\ sweeps'[i].pc \in {"delay", "exec"}

\* C14: at most one executeWeekendBooking is past its in-progress guard at
\* any time (sweep, real-time firings and manual endpoint interleaved), the
\* flag is set exactly while one is, and a call that arrives while the flag
\* is set starts no fetch and writes neither rows nor history.
C14_SingleReservationAttempt ==
    [][ /\ Cardinality(PastGuard') <= 1
        /\ isBookingInProgress' <=> PastGuard' # {}
        /\ (isBookingInProgress /\ ExecCallArrives) =>
              /\ execs' = execs
              /\ rows' = rows
              /\ history' = history
              /\ rtAttempts' = rtAttempts
              /\ isBookingInProgress'
      ]_vars

\* a real-time firing or a manual call was turned away while the sweep's
\* reservation attempt was waiting for the portal
C14_Witness ==
    /\ skipped.execs
    /\ isBookingInProgress
    /\ calls.rt > 0
    /\ \E i \in SweepIds : execs[<<"sweep", i>>].pc = "fetch" /\ sweeps[i].pc = "exec"
    /\ execs[<<"rt", 1>>].pc = "idle"

\* the sweeps that are past the guard of executeCatchUpBookings
ActiveSweeps == {i \in SweepIds : sweeps[i].pc # "idle"}

\* C15: at most one executeCatchUpBookings is active at any time, whichever
\* of the 30-minute cron, the startup timer and the enable timer started it,
\* and while one is active no further sweep gets past the guard.
C15_SweepsSerialized ==
    [][ /\ Cardinality(ActiveSweeps') <= 1
        /\ catchUpInProgress' <=> ActiveSweeps' # {}
        /\ catchUpInProgress =>
              \A i \in SweepIds : sweeps[i].pc = "idle" => sweeps'[i].pc = "idle"
      ]_vars

\* a sweep was turned away at the guard while another one was booking
C15_Witness ==
    /\ skipped.sweeps
    /\ catchUpInProgress
    /\ \E i \in SweepIds : sweeps[i].pc = "exec"
    /\ calls.external > 0
    /\ calls.startupDone

C17_RealTimeExactlyOnce ==
    ( /\ rtFirst = "eligible"
      /\ calls.rt = MaxFirings
      /\ execs[<<"rt", 1>>].pc = "idle" )
    => rtAttempts = 1

\* what one call of getTeeSheet has done so far is within its bounds, and a
\* finished call has returned a parsed page or thrown the error last caught
FetchWithinBounds ==
    /\ tsAttempt <= maxRetries
    /\ tsRequests.initial = tsAttempt
    /\ tsRequests.dated <= tsRequests.initial
    /\ tsPc = "done" =>
          \/ /\ tsOutcome.kind = "returned"
             /\ tsOutcome.teeSheet = parseTeeSheet(payload)
             /\ tsOutcome.error = "none"
          \/ /\ tsOutcome.kind = "thrown"
             /\ tsAttempt = maxRetries
             /\ tsError # "none"
             /\ tsOutcome.error = tsError
    /\ tsPc # "done" => tsOutcome = NoOutcome

\* C18: one getTeeSheet call makes at most 10 attempts, each one initial
\* request followed by at most one dated request, and always ends: it either
\* returns the parsed catalog or, after the 10th attempt, throws a network
\* error that carries the code or message of the last failure.
C18_FetchBounded ==
    /\ []FetchWithinBounds
    /\ (tsPc # "idle") ~> (tsPc = "done")

\* the 10th attempt failed at its initial request with a refused connection
\* and the call threw, after 9 dated requests
C18_Witness ==
    /\ tsPc = "done"
    /\ tsOutcome.kind = "thrown"
    /\ tsOutcome.error = "ECONNREFUSED"
    /\ tsAttempt = maxRetries
    /\ tsRequests.dated = maxRetries - 1

\* the dated request of an attempt carries the non-padded form on attempts
\* 1 to 5 and the padded form on attempts 6 to 10
SendsFormByAttempt ==
    (tsPc = "initial" /\ tsPc' = "dated") =>
        sentDate' = IF tsAttempt <= 5 THEN formattedDate(tsDate) ELSE paddedDate(tsDate)

\* a dated request is answered by a tee sheet page without login text, by a
\* portal that shows the requested date only for the padded form
PaddedOnlySheetAnswers ==
    /\ peerAccepts = {"padded"}
    /\ DatedRequestAnswers
    /\ payload'.dates # {}
    /\ ~IsLoginPage(payload')

\* the answer is passed over and the next attempt starts at once
PassedOver ==
    /\ tsPc' = "initial"
    /\ tsAttempt' = tsAttempt + 1
    /\ tsError' = tsError
    /\ tsOutcome' = NoOutcome

\* the answer passes the date validation and is returned by this attempt
ReturnedNow ==
    /\ tsPc' = "done"
    /\ tsOutcome'.kind = "returned"
    /\ tsAttempt' = tsAttempt
    /\ tsExpectedDateString(sentDate) \in payload'.dates

\* a finished call is not continued
NoFurtherAttempt == tsPc = "done" => UNCHANGED tsVars

FirstPaddedAttempt(date) == IF date.m < 10 \/ date.d < 10 THEN 6 ELSE 1

C20_CatalogDateValidation ==
    tsOutcome.kind = "returned" =>
        /\ LongDate(tsDate) \in payload.dates
        /\ payload.sheet = tsDate
        /\ tsOutcome.teeSheet.sheet = tsDate

\* a closed catalog of October 4 was returned on a later attempt, after the
\* pages of the portal's default date had been turned down
C20_Witness ==
    /\ tsOutcome.kind = "returned"
    /\ ~tsOutcome.teeSheet.available
    /\ tsDate = DateOf(10, 4)
    /\ payload.dates = {[day |-> "Saturday", month |-> "October", num |-> 4, year |-> 2025]}
    /\ tsAttempt > 1
    /\ tsRequests.dated = tsAttempt
    /\ tsError = "none"

\* a dated request is answered by a page of the requested date that carries
\* the login markers
LoginPageAnswers ==
    /\ DatedRequestAnswers
    /\ ~DateMismatch(payload', sentDate)
    /\ IsLoginPage(payload')

\* C21: when the page of the dated request carries the login markers,
\* getTeeSheet ends at once with the session-expiry error: it neither waits
\* nor starts another attempt for it.
C21_SessionExpirySurfaced ==
    [][ LoginPageAnswers =>
            /\ tsPc' = "done"
            /\ tsOutcome'.kind = "thrown"
            /\ tsOutcome'.error = "Session expired - got login page"
      ]_vars

\* a booking attempt starts on the GolfBookingService i
AttemptBegins(i) == cur = NoAttempt /\ cur' # NoAttempt /\ InstanceOf(cur'.kind) = i

\* C22: after an attempt in which authenticate failed, at whichever step, or
\* in which the portal answered with the login page, the next attempt on
\* the same GolfBookingService starts with a handshake.
C22_ReHandshakeAfterFailure ==
    [][ \A i \in Instances :
          ( /\ AttemptBegins(i)
            /\ prev[i] \in {"Authentication failed", "Session expired - got login page"} )
          => cur'.pc = "auth"
      ]_vars

\* the GolfBookingService i holds the session of a successful authenticate
SessionCached(i) == service[i].sessionToken # "" /\ service[i].jar

\* C23: an attempt of the manual scheduler performs the handshake only if no
\* session is cached: once an authenticate has succeeded, processBooking
\* goes on without a handshake.
C23_LazyAuthentication ==
    [][ (AttemptBegins("server") /\ cur'.kind = "processBooking")
        => (cur'.pc = "auth" <=> ~SessionCached("server"))
      ]_vars

\* C27: with fewer than 3 active guests no attempt calls makeReservation,
\* and an attempt that reads the guest list ends there with 'Not enough
\* guests'.
C27_GuestMinimum ==
    [][ guestList < MinGuests =>
            /\ submissions' = submissions
            /\ cur.pc = "guests" =>
                  cur' = NoAttempt /\ prev'[InstanceOf(cur.kind)] = "Not enough guests"
      ]_vars

\* an attempt ends with a reservation the portal confirmed
ReservationConfirmed ==
    /\ Len(logs') = Len(logs) + 1
    /\ logs'[Len(logs')].status = "success"

\* C29: once the request is booked its status stays booked, and no tick,
\* deferred attempt or trigger call makes another reservation for it.
C29_BookedIsTerminal ==
    [][ booking.status = "booked" =>
            /\ booking'.status = "booked"
            /\ ~ReservationConfirmed
      ]_vars

\* the executeWeekendBooking of caller c, past its guard, ends in this step
\* without a booked row
EndsWithoutBooking(c) ==
    /\ execs[c].pc # "idle"
    /\ execs'[c].pc = "idle"
    /\ rows' = rows

\* C28: every executeWeekendBooking that got past the in-progress guard and
\* ends without a booking leaves an entry for its target date in the
\* weekend_booking_history.
C28_NoErrorDropped ==
    [][ \A c \in ExecCallers :
          EndsWithoutBooking(c) => \E e \in history' : e.date = execs[c].date
      ]_vars

\* findAndBookBestSlot answers caller c with success: true
BookingConfirmed(c) == execs[c].pc = "fetch" /\ FetchAnswers(c, "success")

C24_ClosedCatalogIsResult ==
    /\ [][\A page \in ClosedPages :
              TeeSheetParsed(page) =>
                  /\ ~teeSheet'.available
                  /\ teeSheet'.slots = <<>>
                  /\ teeSheet'.message = page.notOpenText
                  /\ teeSheet'.countdown = page.countdown
                  /\ fbPc' = "done"
                  /\ fbResult'.kind = "closed"
                  /\ submitted' = <<>>]_vars
    /\ []((fbPc = "done" /\ fbResult.kind = "closed") => submitted = <<>>)

\* an attempt has ended on a closed catalog that shows a countdown
C24_Witness ==
    /\ fbPc = "done"
    /\ fbResult.kind = "closed"
    /\ ~teeSheet.available
    /\ teeSheet.message = NotOpenText
    /\ teeSheet.countdown = CountdownText
    /\ submitted = <<>>

(***************************************************************************)
(* Properties of the catalog parser (SpecParse)                            *)
(***************************************************************************)
SamePair(a, b) == a.time = b.time /\ a.date = b.date

\* the call at position i has spots left
SpotsLeft(cl, i) == ParseDigits(cl[i].availableSpots) > 0

\* the positions, in page order, of the calls that have spots left and are
\* the first such call of their (time, date) pair
FirstOccurrences(cl) ==
    SelectSeq([i \in 1..Len(cl) |-> i],
              LAMBDA i : /\ SpotsLeft(cl, i)
                         /\ \A j \in 1..(i - 1) : ~(SpotsLeft(cl, j) /\ SamePair(cl[j], cl[i])))

C26_ParserDropsExhausted ==
    psPc \in {"parsed", "parsed twice"} =>
        /\ \A k \in 1..Len(parsed) : parsed[k].availableSpots > 0
        /\ \A i \in 1..Len(html.calls) :
              ParseDigits(html.calls[i].availableSpots) > 0 =>
                  \E k \in 1..Len(parsed) : SamePair(parsed[k], html.calls[i])

\* the attribute scan has read a page on which a call with zero spots stands
\* before a call of the same pair with spots left
C26_Witness ==
    /\ psPc = "parsed"
    /\ html.layout = "inline handlers, encoded quotes"
    /\ \E i, j \in 1..Len(html.calls) :
          /\ i < j
          /\ SamePair(html.calls[i], html.calls[j])
          /\ ParseDigits(html.calls[i].availableSpots) = 0
          /\ ParseDigits(html.calls[j].availableSpots) > 0
          /\ \E k \in 1..Len(parsed) : SamePair(parsed[k], html.calls[j])

(***************************************************************************)
(* Further properties of the weekend automation (SpecWeekend)              *)
(***************************************************************************)
\* sweep i passes the enabled test and the cap test and lists the weekends
SweepLists(i) == sweeps[i].pc = "start" /\ sweeps'[i].pc \notin {"start", "idle"}

\* sweep i calls executeWeekendBooking for the date at its loop position
SweepCallsAttempt(i) == sweeps[i].pc = "failed" /\ sweeps'[i].pc \in {"exec", "delay"}

C32_OccurrenceEnumeration ==
    LET dates == NextWeekendDates(todayDow)
        listed == {dates[k] : k \in DOMAIN dates}
    IN  /\ \A k \in 1..(Len(dates) - 1) : dates[k] < dates[k + 1]
        /\ \A k \in DOMAIN dates : dates[k] > Today
        /\ Cardinality({d \in listed : getDayOf(todayDow, d) = 6}) = 6
        /\ Cardinality({d \in listed : getDayOf(todayDow, d) = 0}) = 6
        /\ \A d \in (Today + 1)..(Today + 7) :
              getDayOf(todayDow, d) \in {0, 6} => d \in listed

\* executeRealTimeBooking calls executeWeekendBooking, which passes its guard
RealTimeAttemptStarts == execs[<<"rt", 1>>].pc = "idle" /\ execs'[<<"rt", 1>>].pc # "idle"

C34_FixedDelayBetweenAttempts ==
    [][ (tsAttempt >= 1 /\ tsAttempt' = tsAttempt + 1) => tsPc = "delay" ]_vars

(***************************************************************************)
(* Further properties of the manual scheduler (SpecSched)                  *)
(***************************************************************************)
\* a tick whose query returns the request while its window opens in more
\* than 0 and less than 30 seconds
TickBeforeOpening ==
    /\ lastTickAt # now
    /\ lastTickAt' = now
    /\ Selected(booking, now)
    /\ booking.opensAt - now > 0
    /\ booking.opensAt - now < DeferWindow

C36_GuardsReleased ==
    /\ isBookingInProgress <=> \E c \in ExecCallers : execs[c].pc # "idle"
    /\ catchUpInProgress <=> \E i \in SweepIds : sweeps[i].pc # "idle"

\* calls have been turned away at both guards, an attempt has ended by
\* booking, every call has returned and both flags are false again
C36_Witness ==
    /\ skipped.execs
    /\ skipped.sweeps
    /\ ~isBookingInProgress
    /\ ~catchUpInProgress
    /\ \E e \in history : e.status = "success"
    /\ \A c \in ExecCallers : execs[c].pc = "idle"
    /\ \A i \in SweepIds : sweeps[i].pc = "idle"

\* the rows of date d with status booked
BookedRows(rs, d) ==
    BagCardinality(RowsWhere(rs, LAMBDA r : r.date = d /\ r.status = "booked"))

\* C37: no date has more than one row with status booked, however a weekend
\* booking attempt, POST /api/bookings and the manual scheduler interleave.
C37_OneBookingPerDate ==
    \A r \in BagToSet(rows) : BookedRows(rows, r.date) <= 1

(***************************************************************************)
(* Further properties of the booking attempts (SpecAttempt)                *)
(***************************************************************************)
\* authenticate returns success: false and the attempt ends
AuthenticateFails == cur.pc = "auth" /\ cur' = NoAttempt

\* C38: when authenticate returns success: false the GolfBookingService
\* holds no session token, so the test `!this.bookingService.sessionToken'
\* of the next attempt is true.
C38_NoTokenAfterFailedHandshake ==
    [][ AuthenticateFails =>
          /\ service'[InstanceOf(cur.kind)].sessionToken = ""
          /\ WeekendNeedsAuth(service'[InstanceOf(cur.kind)])
      ]_vars

(***************************************************************************)
(* Properties of the slot selection on stored and scraped text             *)
(* (SpecSelectText)                                                        *)
(***************************************************************************)
\* none of the three expressions of timeToMinutes matches the string
Unparseable(timeStr) == TimeLex[timeStr].fmt = "none"

\* C40: an unparseable time never widens the window: when the earliest or the
\* latest bound cannot be parsed as a time of day nothing is submitted, and no
\* submitted slot has a time that cannot be parsed.
C40_UnparseableNeverSelects ==
    Selected4Booking =>
        /\ (Unparseable(preferredTime) \/ Unparseable(maxTime)) => submitted = <<>>
        /\ \A k \in 1..Len(submitted) : ~Unparseable(submitted[k].time)

(***************************************************************************)
(* Properties of the runs over a failing storage (SpecStorage)             *)
(***************************************************************************)
\* the read error concerns the occurrence of date d: it asked about d, or it
\* asked about the run as a whole
Affects(e, d) == e.date = NullDate \/ e.date = d

\* C39: storage read errors fail safe: while findAndBookBestSlot is being
\* called for an occurrence, no read of the enabled flag, of the count, of
\* the existing rows or of the 'no_slots' history that concerns this
\* occurrence has thrown in the run.
C39_ReadErrorsFailSafe ==
    \A c \in ExecCallers :
        execs[c].pc = "fetch" =>
            \A e \in readErrors[c] : ~Affects(e, execs[c].date)

====
